------------------------ MODULE SubscriptionsMail_proof ------------------------
(***************************************************************************)
(* Proofs about the queue of notifications, for any users, nodes and       *)
(* subscriptions: what is queued is mailed or lost for a known reason, and *)
(* nobody is told the same twice.                                          *)
(***************************************************************************)
EXTENDS SubscriptionsMail, TLAPS

Known(why, u) == [why |-> why, user |-> u] \in excused
KnownOf(why, u, n) == [why |-> why, user |-> u, node |-> n] \in excused

\* The rows that cron may still mail: those of the table, and the one it has in
\* its hands, which may have been deleted from the table.
Live == queue \cup (IF pc \in {"load", "mail"} THEN {item} ELSE {})

\* A row is of an event the node has had; it has the setting its user had.
RowsOK ==
    /\ \A n \in Nodes : content[n] <= events
    /\ \A r \in Live : /\ r.event <= content[r.node]
                       /\ r.digest # digest[r.user] => Known("switched", r.user)

\* There is a row in hand; what was loaded is what the node says, or was denied.
LoadedOK ==
    /\ Working => item \in Row
    /\ items # {} => item \in Row
    /\ \A o \in loaded :
         /\ o.content <= events
         /\ o.content = 0 => KnownOf("denied", o.user, o.node)
         /\ \/ o.content \in {0, content[o.node]}
            \/ KnownOf("overtaken", o.user, o.node)
    /\ \A o, p \in loaded : o.user = p.user /\ o.node = p.node => o = p

\* Before rows are deleted, access was denied or the object was mailed, put into
\* the digest, or the mail has failed.
Handled(o) ==
    \/ o.content = 0
    \/ mails[<<o.user, o.node, o.content>>] > 0
    \/ <<o.node, o.content>> \in items
    \/ Known("failed", o.user)

HandledOK ==
    /\ pc = "mail" => \E o \in Loaded : o.content # 0
    /\ pc = "delete" => \E o \in Loaded : Handled(o)

\* The user has digests, by the setting or by the default.
Digests(u) == digest[u] = "digests" \/ (digest[u] = "default" /\ default)

\* A digest is left behind only by a user whose setting has changed, or the
\* default since the run has read it.
DigestOK ==
    /\ standing \notin {{}, {default}} => \A u \in Users : Known("switched", u)
    /\ pc \in {"off", "scan"} => ~inDigest
    /\ items # {} => Digests(item.user) \/ Known("switched", item.user)
    /\ items # {} /\ ~inDigest => Known("switched", item.user)

\* Who was told of some content, or is about to be in a digest, has no older row
\* that could be mailed.
Told(u, n, c) ==
    \/ mails[<<u, n, c>>] > 0
    \/ items # {} /\ item.user = u /\ <<n, c>> \in items

NoOlder(u, n, c) ==
    \/ \A r \in Live : r.user = u /\ r.node = n => r.event > c
    \/ pc = "delete" /\ item.user = u /\ item.node = n

ToldRight(u, n, c) ==
    /\ Told(u, n, c) => c <= events
    /\ \/ Known("died", u) \/ KnownOf("overtaken", u, n)
       \/ /\ mails[<<u, n, c>>] <= 1
          /\ items # {} /\ item.user = u /\ <<n, c>> \in items => mails[<<u, n, c>>] = 0
          /\ Told(u, n, c) => NoOlder(u, n, c)

ToldOK == \A u \in Users, n \in Nodes, c \in Events : ToldRight(u, n, c)

Inv == TypeOK /\ RowsOK /\ LoadedOK /\ HandledOK /\ DigestOK /\ ToldOK /\ Delivered

-----------------------------------------------------------------------------
LEMMA Types ==
  ASSUME TypeOK
  PROVE  /\ events \in Nat /\ events <= MaxEvents /\ MaxEvents \in Nat
         /\ Events \subseteq Nat
         /\ \A n \in Nodes : content[n] \in 0..MaxEvents /\ content[n] \in Nat
         /\ \A r \in queue : r \in Row
         /\ \A r \in Row : r.user \in Users /\ r.node \in Nodes /\ r.event \in Events
         /\ \A o \in loaded : /\ o \in Object /\ o.user \in Users /\ o.node \in Nodes
                             /\ o.content \in 0..MaxEvents
                             /\ o.content # 0 => o.content \in Events
         /\ \A u \in Users, n \in Nodes, c \in Events : mails[<<u, n, c>>] \in Nat
  BY MailAssumption DEF TypeOK, Events, Row, Object

LEMMA Later ==
  /\ \A a \in Events : \A c \in a..MaxEvents : c \in Events
  /\ \A a \in Nat, c \in 0..MaxEvents : a <= c => c \in a..MaxEvents
<1>1. MaxEvents \in Nat
  BY MailAssumption
<1> QED
  BY <1>1 DEF Events

LEMMA Grown == \A a \in Nat : \A b : a > 0 /\ b \in {a, a + 1} => b > 0
  OBVIOUS

LEMMA InitInv == Init => Inv
<1> SUFFICES ASSUME Init PROVE Inv
  OBVIOUS
<1>1. TypeOK
  <2>1. events \in 0..MaxEvents /\ upsets \in 0..MaxUpsets
    BY MailAssumption DEF Init
  <2>2. /\ content \in [Nodes -> 0..MaxEvents]
        /\ mails \in [Users \X Nodes \X Events -> Nat]
    BY MailAssumption DEF Init
  <2>3. /\ digest \in [Users -> Digest] /\ viewable \subseteq Users \X Nodes
        /\ submitted \in 0..MaxSubmits
    BY MailAssumption DEF Init
  <2> QED
    BY <2>1, <2>2, <2>3 DEF Init, TypeOK, Steps
<1>2. \A m \in Users \X Nodes \X Events : mails[m] = 0
  BY DEF Init
<1>3. RowsOK /\ LoadedOK /\ HandledOK /\ DigestOK /\ Delivered
  BY DEF Init, RowsOK, Live, LoadedOK, HandledOK, DigestOK, Delivered, Working
<1>4. ToldOK
  BY <1>2 DEF Init, ToldOK, ToldRight, Told
<1> QED
  BY <1>1, <1>3, <1>4 DEF Inv

-----------------------------------------------------------------------------
\* Excuses are for good.
LEMMA KnownStays ==
  ASSUME excused \subseteq excused'
  PROVE  /\ \A why, u : Known(why, u) => Known(why, u)'
         /\ \A why, u, n : KnownOf(why, u, n) => KnownOf(why, u, n)'
         /\ \A u, n : Excused(u, n) => Excused(u, n)'
  BY DEF Known, KnownOf, Excused

LEMMA KnownExcuses ==
  /\ \A why \in {"failed", "died", "switched", "dropped"} :
       \A u, n : Known(why, u) => Excused(u, n)
  /\ \A why \in {"denied", "overtaken"} :
       \A u, n : KnownOf(why, u, n) => Excused(u, n)
  BY DEF Known, KnownOf, Excused

Like(q, r) == q.user = r.user /\ q.node = r.node /\ q.event = r.event /\ q.digest = r.digest

\* Nothing happens but that rows are dropped or become ready.
LEMMA QuietInv ==
  ASSUME Inv, TypeOK',
         UNCHANGED <<events, content, digest, default, pc, item, inDigest, standing,
                     items, loaded, mails, owed>>,
         excused \subseteq excused',
         \A q \in queue' : \E r \in queue : Like(q, r),
         \A r \in queue : (\E q \in queue' : Like(q, r)) \/ Known("dropped", r.user)'
  PROVE  Inv'
<1>1. \A q \in Live' : \E r \in Live : Like(q, r)
  BY DEF Live, Like
<1>2. RowsOK'
  BY <1>1, KnownStays DEF Inv, RowsOK, Like
<1>3. LoadedOK' /\ HandledOK' /\ DigestOK'
  BY KnownStays DEF Inv, LoadedOK, HandledOK, Handled, DigestOK, Digests, Working, Loaded
<1>4. ToldOK'
  <2> SUFFICES ASSUME NEW u \in Users, NEW n \in Nodes, NEW c \in Events
               PROVE  ToldRight(u, n, c)'
    BY DEF ToldOK
  <2>1. ToldRight(u, n, c)
    BY DEF Inv, ToldOK
  <2>2. Told(u, n, c)' <=> Told(u, n, c)
    BY DEF Told
  <2>3. NoOlder(u, n, c) => NoOlder(u, n, c)'
    BY <1>1 DEF NoOlder, Like
  <2> QED
    BY <2>1, <2>2, <2>3, KnownStays DEF ToldRight
<1>5. Delivered'
  <2> SUFFICES ASSUME NEW o \in owed,
                      \E r \in queue : r.user = o.user /\ r.node = o.node /\ r.event = o.event,
                      ~ \E r \in queue' : r.user = o.user /\ r.node = o.node /\ r.event = o.event
               PROVE  Excused(o.user, o.node)'
    BY KnownStays DEF Inv, Delivered
  <2>1. Known("dropped", o.user)'
    BY DEF Like
  <2> QED
    BY <2>1 DEF Known, Excused
<1> QED
  BY <1>2, <1>3, <1>4, <1>5 DEF Inv

LEMMA RipenInv == ASSUME Inv, NEW r \in queue, Ripen(r) PROVE Inv'
<1> DEFINE q == [r EXCEPT !.ready = TRUE]
<1>1. r \in Row /\ queue' = (queue \ {r}) \cup {q}
  BY DEF Ripen, Inv, TypeOK
<1>2. q \in Row /\ Like(q, r)
  BY <1>1 DEF Row, Like
<1>3. TypeOK'
  BY <1>1, <1>2 DEF Inv, TypeOK, Ripen, settings, formVars, cronVars
<1>4. /\ \A p \in queue' : \E t \in queue : Like(p, t)
      /\ \A t \in queue : \E p \in queue' : Like(p, t)
  BY <1>1, <1>2 DEF Like
<1> QED
  BY <1>3, <1>4, QuietInv DEF Ripen, settings, cronVars

\* Rights are lost, rows are dropped.
LEMMA ChangeInv ==
  ASSUME Inv, Users # {}, Purge \/ \E u \in Users, n \in Nodes : Revoke(u, n)
  PROVE  Inv'
<1>1. /\ UNCHANGED <<events, content, digest, default, suspended, formVars, pc, item,
                     inDigest, standing, items, loaded, caught, mails, owed>>
      /\ queue' \subseteq queue /\ excused \subseteq excused'
      /\ \A r \in queue : r \in queue' \/ Known("dropped", r.user)'
  <2>1. CASE \E u \in Users, n \in Nodes : Revoke(u, n)
    BY <2>1 DEF Revoke, Change
  <2>2. CASE Purge
    BY <2>2, Types DEF Purge, Change, Known, Inv, settings
  <2> QED
    BY <2>1, <2>2
<1>2. TypeOK'
  <2>1. upsets' \in 0..MaxUpsets
    BY MailAssumption DEF Purge, Revoke, Change, Upset, Inv, TypeOK
  <2>2. viewable' \subseteq Users \X Nodes
    BY DEF Purge, Revoke, Inv, TypeOK, settings
  <2>3. excused' \subseteq Excuses
    BY DEF Purge, Revoke, Inv, TypeOK, Excuses
  <2> QED
    BY <1>1, <2>1, <2>2, <2>3 DEF Inv, TypeOK, formVars
<1> QED
  BY <1>1, <1>2, QuietInv DEF Like

\* A form is submitted, and its submission goes on or dies: rows are dropped, or
\* change a column that nothing here depends on.
LEMMA SubmitInv ==
  ASSUME Inv, NEW u \in Users, NEW to \in BOOLEAN, NEW drop \in BOOLEAN,
         Submit(u, to, drop)
  PROVE  Inv'
<1>1. TypeOK'
  <2>1. submitted' \in 0..MaxSubmits /\ submitted' \in 1..MaxSubmits
    BY MailAssumption DEF Submit, Inv, TypeOK
  <2>2. submits' \subseteq Submission
    BY <2>1 DEF Submit, Inv, TypeOK, Submission
  <2> QED
    BY <2>1, <2>2 DEF Submit, Handler, Inv, TypeOK
<1> QED
  BY <1>1, QuietInv DEF Submit, Handler, Like

LEMMA HandlerInv ==
  ASSUME Inv, NEW x \in submits, Proceed(x) \/ Cut(x) PROVE Inv'
<1>1. x \in Submission /\ x.user \in Users /\ x.to \in BOOLEAN
      /\ [x EXCEPT !.step = "user"] \in Submission
      /\ [x EXCEPT !.step = "queue"] \in Submission
  BY DEF Inv, TypeOK, Submission
<1>2. CASE DropRows(x)
  <2>1. TypeOK'
    BY <1>1, <1>2 DEF DropRows, Handler, Inv, TypeOK, Excuses
  <2> QED
    BY <1>2, <2>1, QuietInv DEF DropRows, Handler, Like, Known
<1>3. CASE StoreUser(x)
  <2>1. TypeOK'
    BY <1>1, <1>3 DEF StoreUser, Handler, Inv, TypeOK
  <2> QED
    BY <1>3, <2>1, QuietInv DEF StoreUser, Handler, Like
<1>4. CASE StoreRows(x)
  <2> DEFINE mark(r) == IF r.user = x.user THEN [r EXCEPT !.suspended = x.to] ELSE r
  <2>1. queue' = {mark(r) : r \in queue} /\ queue \subseteq Row
    BY <1>4 DEF StoreRows, Inv, TypeOK
  <2>2. \A r \in Row : mark(r) \in Row /\ Like(mark(r), r)
    BY <1>1 DEF Row, Like
  <2>3. queue' \subseteq Row
    BY <2>1, <2>2
  <2>4. TypeOK'
    BY <1>4, <2>3 DEF StoreRows, Handler, Inv, TypeOK
  <2> HIDE DEF mark
  <2>5. /\ \A q \in queue' : \E r \in queue : Like(q, r)
        /\ \A r \in queue : \E q \in queue' : Like(q, r)
    BY <2>1, <2>2
  <2> QED
    BY <1>4, <2>4, <2>5, QuietInv DEF StoreRows, Handler
<1>5. CASE Cut(x)
  <2>1. TypeOK'
    BY <1>1, <1>5 DEF Cut, Handler, Inv, TypeOK
  <2> QED
    BY <1>5, <2>1, QuietInv DEF Cut, Handler, Like
<1> QED
  BY <1>2, <1>3, <1>4, <1>5 DEF Proceed

LEMMA SwitchInv ==
  ASSUME Inv, SwitchDefault \/ \E u \in Users, d \in Digest : SwitchDigest(u, d)
  PROVE  Inv'
<1>1. /\ UNCHANGED <<queueVars, suspended, viewable, formVars, pc, item, inDigest,
                     standing, items, loaded, caught, mails, owed>>
      /\ excused \subseteq excused'
  BY DEF SwitchDigest, SwitchDefault, Change, queueVars
<1>2. \A v \in Users : \/ Known("switched", v)'
                       \/ digest'[v] = digest[v] /\ default' = default
  <2>1. CASE SwitchDefault
    BY <2>1 DEF SwitchDefault, Known
  <2>2. ASSUME NEW u \in Users, NEW d \in Digest, SwitchDigest(u, d)
        PROVE  \A v \in Users :
                 Known("switched", v)' \/ (digest'[v] = digest[v] /\ default' = default)
    BY <2>2 DEF SwitchDigest, Known, Inv, TypeOK
  <2> QED
    BY <2>1, <2>2
<1>3. TypeOK'
  <2>1. upsets' \in 0..MaxUpsets
    BY MailAssumption DEF SwitchDigest, SwitchDefault, Change, Upset, Inv, TypeOK
  <2>2. digest' \in [Users -> Digest] /\ default' \in BOOLEAN
    BY DEF SwitchDigest, SwitchDefault, Inv, TypeOK
  <2>3. excused' \subseteq Excuses
    BY DEF SwitchDigest, SwitchDefault, Inv, TypeOK, Excuses
  <2> QED
    BY <1>1, <2>1, <2>2, <2>3 DEF Inv, TypeOK, queueVars, formVars
<1>4. \A r \in Live : r \in Row
  BY Types DEF Inv, LoadedOK, Live, Working
<1>5. RowsOK'
  <2>1. ASSUME NEW r \in Live, r.digest # digest'[r.user]
        PROVE  Known("switched", r.user)'
    <3>1. r.user \in Users
      BY <1>4, Types DEF Inv
    <3>2. CASE digest'[r.user] = digest[r.user]
      BY <1>1, <2>1, <3>2, KnownStays DEF Inv, RowsOK
    <3> QED
      BY <1>2, <3>1, <3>2
  <2> QED
    BY <1>1, <2>1 DEF Inv, RowsOK, Live, queueVars
<1>6. LoadedOK' /\ HandledOK'
  BY <1>1, KnownStays DEF Inv, LoadedOK, HandledOK, Handled, Working, Loaded, queueVars
<1>7. DigestOK'
  <2>1. standing \notin {{}, {default'}} => \A v \in Users : Known("switched", v)'
    <3>1. CASE default' = default
      BY <3>1, <1>1, KnownStays DEF Inv, DigestOK
    <3>2. CASE default' # default
      BY <1>2, <3>2
    <3> QED
      BY <3>1, <3>2
  <2>2. items # {} => Digests(item.user)' \/ Known("switched", item.user)'
    <3> SUFFICES ASSUME items # {} PROVE Digests(item.user)' \/ Known("switched", item.user)'
      OBVIOUS
    <3>1. item.user \in Users
      BY Types DEF Inv, LoadedOK
    <3>2. Digests(item.user) \/ Known("switched", item.user)
      BY DEF Inv, DigestOK
    <3> QED
      BY <1>1, <1>2, <3>1, <3>2, KnownStays DEF Digests
  <2>3. items # {} /\ ~inDigest => Known("switched", item.user)'
    BY <1>1, KnownStays DEF Inv, DigestOK
  <2> QED
    BY <1>1, <2>1, <2>2, <2>3 DEF Inv, DigestOK, Digests, Known
<1>8. ToldOK'
  <2> SUFFICES ASSUME NEW v \in Users, NEW n \in Nodes, NEW c \in Events
               PROVE  ToldRight(v, n, c)'
    BY DEF ToldOK
  <2>1. ToldRight(v, n, c)
    BY DEF Inv, ToldOK
  <2>2. Told(v, n, c)' <=> Told(v, n, c)
    BY <1>1 DEF Told
  <2>3. NoOlder(v, n, c)' <=> NoOlder(v, n, c)
    BY <1>1 DEF NoOlder, Live, queueVars
  <2> QED
    BY <1>1, <2>1, <2>2, <2>3, KnownStays DEF ToldRight, queueVars
<1>9. Delivered'
  BY <1>1, KnownStays DEF Inv, Delivered, queueVars
<1> QED
  BY <1>3, <1>5, <1>6, <1>7, <1>8, <1>9 DEF Inv

LEMMA SaveInv == ASSUME Inv, NEW n \in Nodes, Save(n) PROVE Inv'
<1> DEFINE e == events + 1
           row(s) == [user |-> s.user, field |-> s.field, node |-> n, event |-> e,
                      digest |-> digest[s.user], suspended |-> s.user \in suspended,
                      ready |-> FALSE]
<1>1. /\ events' = e /\ e \in Events /\ events \in Nat /\ events < e
      /\ content' = [content EXCEPT ![n] = e]
      /\ queue' = queue \cup {row(s) : s \in Matching(n)}
      /\ UNCHANGED <<settings, formVars, cronVars, upsets, mails>>
  BY MailAssumption DEF Save, Inv, TypeOK, Events
<1>2. /\ content'[n] = e /\ \A m \in Nodes : m # n => content'[m] = content[m]
      /\ \A m \in Nodes : content[m] \in Nat /\ content[m] <= events
      /\ \A m \in Nodes : content[m] <= content'[m] /\ content'[m] <= e
  BY <1>1, Types DEF Inv, TypeOK, RowsOK
<1>3. /\ excused \subseteq excused'
      /\ \A o \in loaded : o.node = n => KnownOf("overtaken", o.user, n)'
  BY DEF Save, KnownOf
<1>4. \A s \in Matching(n) : s.user \in Users /\ s \in Subscriptions
  BY MailAssumption DEF Matching
<1>5. \A s \in Matching(n) : row(s) \in Row
  BY <1>1, <1>4 DEF Row, Inv, TypeOK
<1>6. TypeOK'
  <2>1. content' \in [Nodes -> 0..MaxEvents] /\ events' \in 0..MaxEvents
    BY <1>1 DEF Inv, TypeOK, Events
  <2>2. queue' \subseteq Row
    BY <1>1, <1>5 DEF Inv, TypeOK
  <2>3. owed' \subseteq Notice
    BY <1>1, <1>4 DEF Save, Inv, TypeOK, Notice
  <2>4. excused' \subseteq Excuses
    <3>1. excused' = excused \cup {[why |-> "overtaken", user |-> o.user, node |-> n] :
                                    o \in {m \in loaded : m.node = n}}
      BY DEF Save
    <3>2. ASSUME NEW o \in loaded
          PROVE  [why |-> "overtaken", user |-> o.user, node |-> n] \in Excuses
      <4>1. o.user \in Users
        BY DEF Inv, TypeOK, Object
      <4> QED
        BY <4>1 DEF Excuses
    <3> QED
      BY <3>1, <3>2 DEF Inv, TypeOK
  <2> QED
    BY <1>1, <2>1, <2>2, <2>3, <2>4 DEF Inv, TypeOK, settings, formVars, cronVars
<1>7. Live' = Live \cup {row(s) : s \in Matching(n)}
  BY <1>1 DEF Live, cronVars
<1>8. \A r \in Live : r \in Row
  BY Types DEF Inv, LoadedOK, Live, Working
<1>9. RowsOK'
  <2>1. ASSUME NEW r \in Live
        PROVE  /\ r.event <= content'[r.node]
               /\ r.digest # digest[r.user] => Known("switched", r.user)'
    <3>1. r.event <= content[r.node] /\ r.node \in Nodes /\ r.event \in Nat
      BY <1>8, Types DEF Inv, RowsOK
    <3> QED
      BY <1>2, <1>3, <3>1, KnownStays, Types DEF Inv, RowsOK
  <2>2. ASSUME NEW s \in Matching(n)
        PROVE  row(s).event <= content'[n] /\ row(s).digest = digest[s.user]
    BY <1>1, <1>2
  <2> QED
    BY <1>1, <1>2, <1>7, <2>1, <2>2 DEF RowsOK, settings
<1>10. LoadedOK'
  <2>1. ASSUME NEW o \in loaded
        PROVE  /\ o.content <= events'
               /\ o.content = 0 => KnownOf("denied", o.user, o.node)'
               /\ o.content \in {0, content'[o.node]} \/ KnownOf("overtaken", o.user, o.node)'
    <3>1. o.node \in Nodes /\ o.content \in Nat
      BY MailAssumption DEF Inv, TypeOK, Object
    <3>2. o.content <= events'
      BY <1>1, <3>1 DEF Inv, LoadedOK
    <3>3. o.content = 0 => KnownOf("denied", o.user, o.node)'
      BY <1>3, KnownStays DEF Inv, LoadedOK
    <3>4. o.content \in {0, content'[o.node]} \/ KnownOf("overtaken", o.user, o.node)'
      BY <1>2, <1>3, <3>1, KnownStays DEF Inv, LoadedOK
    <3> QED
      BY <3>2, <3>3, <3>4
  <2> QED
    BY <1>1, <2>1 DEF Inv, LoadedOK, Working, cronVars
<1>11. HandledOK' /\ DigestOK'
  BY <1>1, <1>3, KnownStays
  DEF Inv, HandledOK, Handled, Loaded, DigestOK, Digests, cronVars, settings
<1>12. ToldOK'
  <2> SUFFICES ASSUME NEW u \in Users, NEW m \in Nodes, NEW c \in Events
               PROVE  ToldRight(u, m, c)'
    BY DEF ToldOK
  <2>1. Told(u, m, c)' <=> Told(u, m, c)
    BY <1>1 DEF Told, cronVars
  <2>2. ToldRight(u, m, c)
    BY DEF Inv, ToldOK
  <2>3. c \in Nat
    BY Types DEF Inv
  <2>4. c <= events => \A s \in Matching(n) : row(s).event > c
    BY <1>1, <2>3
  <2>5. c <= events /\ NoOlder(u, m, c) => NoOlder(u, m, c)'
    BY <1>1, <1>7, <2>4 DEF NoOlder, cronVars
  <2> QED
    BY <1>1, <1>3, <2>1, <2>2, <2>3, <2>5, KnownStays DEF ToldRight, cronVars
<1>13. Delivered'
  <2>1. \A o \in owed' : \/ o \in owed
                         \/ \E r \in queue' : r.user = o.user /\ r.node = o.node
                                              /\ r.event = o.event
    <3> SUFFICES ASSUME NEW s \in Matching(n)
                 PROVE  LET o == [user |-> s.user, node |-> n, event |-> e]
                        IN  \E r \in queue' : r.user = o.user /\ r.node = o.node
                                             /\ r.event = o.event
      BY <1>1 DEF Save
    <3>1. row(s) \in queue'
      BY <1>1
    <3> QED
      BY <3>1
  <2>2. queue \subseteq queue'
    BY <1>1
  <2> QED
    BY <1>1, <1>3, <2>1, <2>2, KnownStays DEF Inv, Delivered, cronVars
<1> QED
  BY <1>6, <1>9, <1>10, <1>11, <1>12, <1>13 DEF Inv

-----------------------------------------------------------------------------
\* A digest that was put together and is thrown away is one of a user whose
\* setting has changed, or of a run that has died.
LEMMA Forgotten ==
  ASSUME Inv, NEW o \in owed, Delivered, queue' = queue, mails' = mails,
         excused \subseteq excused', owed' = owed,
         Known("switched", item.user) \/ [why |-> "died", user |-> item.user] \in excused' \/ items = {}
  PROVE  \/ \E r \in queue' : r.user = o.user /\ r.node = o.node /\ r.event = o.event
         \/ \E c \in o.event..MaxEvents : mails'[o.user, o.node, c] > 0
         \/ Excused(o.user, o.node)'
<1>1. CASE Excused(o.user, o.node)
  BY <1>1, KnownStays
<1>2. CASE items # {} /\ o.user = item.user
  <2>1. PICK why \in {"switched", "died"} : [why |-> why, user |-> o.user] \in excused'
    BY <1>2 DEF Known
  <2> QED
    BY <2>1 DEF Excused
<1> QED
  BY <1>1, <1>2 DEF Delivered

\* Where nothing is added to what was said, nor to the rows.
LEMMA SameTold ==
  ASSUME Inv, Live' \subseteq Live, mails' = mails, events' = events, excused \subseteq excused',
         items' = {} \/ (items' = items /\ item'.user = item.user),
         \/ pc # "delete"
         \/ [why |-> "died", user |-> item.user] \in excused'
         \/ pc' # "delete" /\ \A r \in Live' : r.user # item.user \/ r.node # item.node
  PROVE  ToldOK'
<1> SUFFICES ASSUME NEW u \in Users, NEW n \in Nodes, NEW c \in Events
             PROVE  ToldRight(u, n, c)'
  BY DEF ToldOK
<1>1. ToldRight(u, n, c)
  BY DEF Inv, ToldOK
<1>2. Told(u, n, c)' => Told(u, n, c)
  BY DEF Told
<1>3. NoOlder(u, n, c) => NoOlder(u, n, c)' \/ Known("died", u)'
  BY DEF NoOlder, Known
<1> QED
  BY <1>1, <1>2, <1>3, KnownStays DEF ToldRight

LEMMA BeginInv == ASSUME Inv, Begin PROVE Inv'
<1> USE DEF Begin, CronStep, settings, formVars
<1>1. TypeOK'
  BY DEF Inv, TypeOK, Steps
<1>2. Live' = Live
  BY DEF Live
<1>3. RowsOK' /\ LoadedOK' /\ HandledOK' /\ DigestOK' /\ Delivered'
  BY <1>2, KnownStays
  DEF Inv, RowsOK, LoadedOK, HandledOK, DigestOK, Digests, Delivered, Working, Excused
<1>4. ToldOK'
  BY <1>2, SameTold
<1> QED
  BY <1>1, <1>3, <1>4 DEF Inv

LEMMA PickInv == ASSUME Inv, NEW r \in queue, Pick(r) PROVE Inv'
<1> USE DEF Pick, CronStep, settings, formVars
<1>1. r \in Row /\ TypeOK'
  BY DEF Inv, TypeOK, Steps
<1>2. Live' = Live
  BY DEF Live
<1>3. RowsOK' /\ LoadedOK' /\ HandledOK' /\ DigestOK'
  BY <1>1, <1>2, KnownStays DEF Inv, RowsOK, LoadedOK, HandledOK, DigestOK, Digests, Working
<1>4. Delivered'
  BY Forgotten DEF Inv, DigestOK, Delivered
<1>5. ToldOK'
  BY <1>2, SameTold
<1> QED
  BY <1>1, <1>3, <1>4, <1>5 DEF Inv

LEMMA StopInv == ASSUME Inv, Stop PROVE Inv'
<1> USE DEF Stop, CronStep, settings, formVars
<1>1. TypeOK'
  BY DEF Inv, TypeOK, Steps
<1>2. Live' = Live
  BY DEF Live
<1>3. RowsOK' /\ LoadedOK' /\ HandledOK' /\ DigestOK'
  BY <1>2, KnownStays DEF Inv, RowsOK, LoadedOK, HandledOK, DigestOK, Digests, Working
<1>4. Delivered'
  BY Forgotten DEF Inv, DigestOK, Delivered
<1>5. ToldOK'
  BY <1>2, SameTold
<1> QED
  BY <1>1, <1>3, <1>4, <1>5 DEF Inv

LEMMA DieInv == ASSUME Inv, Die PROVE Inv'
<1> USE DEF Die, CronStep, settings, formVars
<1>1. /\ excused \subseteq excused' /\ pc' = "off" /\ mails' = mails
      /\ Working => [why |-> "died", user |-> item.user] \in excused'
  BY DEF Known
<1>2. TypeOK'
  <2>1. upsets' \in 0..MaxUpsets
    BY MailAssumption DEF Upset, Inv, TypeOK
  <2>2. excused' \subseteq Excuses
    <3>1. Working => item.user \in Users
      BY Types DEF Inv, LoadedOK
    <3> QED
      BY <3>1 DEF Inv, TypeOK, Excuses
  <2> QED
    BY <2>1, <2>2 DEF Inv, TypeOK, Steps
<1>3. Live' \subseteq Live
  BY DEF Live
<1>4. RowsOK' /\ LoadedOK' /\ HandledOK' /\ DigestOK'
  BY <1>1, <1>3, KnownStays DEF Inv, RowsOK, LoadedOK, HandledOK, DigestOK, Digests, Working
<1>5. Delivered'
  BY <1>1, Forgotten DEF Inv, DigestOK, Delivered, Working
<1>6. ToldOK'
  BY <1>1, <1>3, SameTold DEF Working
<1> QED
  BY <1>2, <1>4, <1>5, <1>6 DEF Inv

LEMMA NextItemInv == ASSUME Inv, NEW r \in queue, NextItem(r) PROVE Inv'
<1> USE DEF NextItem, CronStep, settings, formVars
<1>1. r \in Row /\ r # Nothing /\ TypeOK'
  BY MailAssumption DEF Inv, TypeOK, Steps
<1>2. Live' = Live
  BY DEF Live
<1>3. RowsOK' /\ LoadedOK' /\ HandledOK' /\ DigestOK'
  BY <1>1, <1>2, KnownStays DEF Inv, RowsOK, LoadedOK, HandledOK, DigestOK, Digests, Working
<1>4. ToldOK'
  BY <1>2, SameTold
<1>5. Delivered'
  <2>1. Delivered /\ item'.user = item.user /\ item' # Nothing
    BY <1>1 DEF Inv
  <2> QED
    BY <2>1 DEF Delivered, Excused
<1> QED
  BY <1>1, <1>3, <1>4, <1>5 DEF Inv

LEMMA NoItemInv == ASSUME Inv, NoItem PROVE Inv'
<1> USE DEF NoItem, CronStep, settings, formVars
<1>1. TypeOK'
  BY DEF Inv, TypeOK, Steps
<1>2. Live' = Live
  BY DEF Live
<1>3. RowsOK' /\ LoadedOK' /\ HandledOK' /\ DigestOK' /\ Delivered'
  BY <1>2, KnownStays
  DEF Inv, RowsOK, LoadedOK, HandledOK, DigestOK, Digests, Delivered, Working, Excused
<1>4. ToldOK'
  BY <1>2, SameTold
<1> QED
  BY <1>1, <1>3, <1>4 DEF Inv

\* Rows are deleted only where what they are about was handled.
LEMMA DeleteInv == ASSUME Inv, Delete PROVE Inv'
<1> USE DEF Delete, CronStep, settings, formVars
<1>1. /\ queue' = {r \in queue : r.user # item.user \/ r.node # item.node}
      /\ pc = "delete" /\ pc' \in {"next", "scan"} /\ item \in Row
      /\ pc' = "scan" => ~inDigest
  BY DEF Inv, LoadedOK, Working, TypeOK
<1>2. TypeOK'
  BY <1>1 DEF Inv, TypeOK, Steps
<1>3. Live' \subseteq Live /\ Live' = queue'
  BY <1>1 DEF Live
<1>4. RowsOK' /\ LoadedOK' /\ HandledOK' /\ DigestOK'
  BY <1>1, <1>3, KnownStays DEF Inv, RowsOK, LoadedOK, HandledOK, DigestOK, Digests, Working
<1>5. ToldOK'
  BY <1>1, <1>3, SameTold
<1>6. Delivered'
  <2> SUFFICES ASSUME NEW w \in owed, NEW r \in queue,
                      r.user = w.user, r.node = w.node, r.event = w.event,
                      r.user = item.user, r.node = item.node
               PROVE  \/ \E c \in w.event..MaxEvents :
                           mails[w.user, w.node, c] > 0
                             \/ (item # Nothing /\ item.user = w.user /\ <<w.node, c>> \in items)
                      \/ Excused(w.user, w.node)
    BY <1>1 DEF Inv, Delivered, Excused
  <2>1. PICK o \in Loaded : Handled(o)
    BY <1>1 DEF Inv, HandledOK
  <2>2. o \in loaded /\ o.user = w.user /\ o.node = w.node
    BY <2>1 DEF Loaded
  <2>3. r.event <= content[w.node] /\ content[w.node] \in 0..MaxEvents /\ r.event \in Nat
    BY <1>1, Types DEF Inv, RowsOK, Live
  <2>4. o.content = 0 => Excused(w.user, w.node)
    BY <2>2, KnownExcuses DEF Inv, LoadedOK
  <2>5. o.content = content[w.node] \/ o.content = 0 \/ Excused(w.user, w.node)
    BY <2>2, KnownExcuses DEF Inv, LoadedOK
  <2>6. Known("failed", o.user) => Excused(w.user, w.node)
    BY <2>2, KnownExcuses
  <2>7. item # Nothing
    BY <1>1, MailAssumption
  <2>8. CASE o.content = content[w.node]
    <3>1. w.event \in Nat /\ MaxEvents \in Nat /\ w.event <= content[w.node]
      BY <2>3, MailAssumption
    <3>2. o.content \in w.event..MaxEvents
      BY <2>3, <2>8, <3>1, Later
    <3> QED
      BY <2>1, <2>2, <2>4, <2>6, <2>7, <3>2 DEF Handled
  <2> QED
    BY <2>4, <2>5, <2>8
<1> QED
  BY <1>2, <1>4, <1>5, <1>6 DEF Inv

\* The first object loaded stays; whom it is denied to is known.
LEMMA LoadInv == ASSUME Inv, Load PROVE Inv'
<1> DEFINE may == <<item.user, item.node>> \in viewable
           object == [user |-> item.user, node |-> item.node,
                      content |-> IF may THEN content[item.node] ELSE 0]
           denied == \E o \in loaded' : /\ o.user = item.user /\ o.node = item.node
                                        /\ o.content = 0
<1> USE DEF CronStep, settings, formVars
<1>1. /\ pc = "load" /\ item \in Row /\ item.user \in Users /\ item.node \in Nodes
      /\ CronStep
      /\ UNCHANGED <<queue, item, inDigest, standing, items, caught, upsets, mails>>
  BY Types DEF Load, Inv, LoadedOK, Working
<1>2. /\ loaded' = IF Loaded = {} THEN loaded \cup {object} ELSE loaded
      /\ pc' = IF denied THEN "delete" ELSE "mail"
      /\ excused \subseteq excused'
      /\ denied => KnownOf("denied", item.user, item.node)'
      /\ excused' \subseteq excused
                       \cup {[why |-> "denied", user |-> item.user, node |-> item.node]}
  BY DEF Load, KnownOf
<1>3. object \in Object /\ content[item.node] <= events /\ events \in Nat
  BY <1>1, Types DEF Inv, RowsOK, Object
<1> HIDE DEF may
<1>4. TypeOK'
  <2>1. loaded' \subseteq Object
    BY <1>2, <1>3 DEF Inv, TypeOK
  <2>2. excused' \subseteq Excuses
    BY <1>1, <1>2 DEF Inv, TypeOK, Excuses
  <2>3. pc' \in Steps
    BY <1>2 DEF Steps
  <2> QED
    BY <1>1, <2>1, <2>2, <2>3 DEF Inv, TypeOK
<1>5. Live' \subseteq Live
  BY <1>1, <1>2 DEF Live
<1>6. \E o \in loaded' : o.user = item.user /\ o.node = item.node
  <2>1. CASE Loaded = {}
    <3>1. object \in loaded' /\ object.user = item.user /\ object.node = item.node
      BY <1>2, <2>1
    <3> QED
      BY <3>1
  <2>2. CASE Loaded # {}
    BY <1>2, <2>2 DEF Loaded
  <2> QED
    BY <2>1, <2>2
<1>7. LoadedOK'
  <2>1. CASE Loaded = {}
    <3>1. loaded' = loaded \cup {object}
      BY <1>2, <2>1
    <3>2. \A o \in loaded : o.user # object.user \/ o.node # object.node
      BY <2>1 DEF Loaded
    <3>3. \A o, p \in loaded' : o.user = p.user /\ o.node = p.node => o = p
      BY <3>1, <3>2 DEF Inv, LoadedOK
    <3>4. object.content = 0
            => [why |-> "denied", user |-> object.user, node |-> object.node] \in excused'
      <4> SUFFICES ASSUME object.content = 0
                   PROVE  [why |-> "denied", user |-> item.user, node |-> item.node] \in excused'
        OBVIOUS
      <4>1. object \in loaded' /\ object.user = item.user /\ object.node = item.node
        BY <3>1
      <4>2. denied
        BY <4>1
      <4> QED
        BY <1>2, <1>1, <4>2 DEF KnownOf
    <3>5. object.content <= events /\ object.content \in {0, content[object.node]}
      BY <1>3
    <3>6. \A o \in loaded :
            /\ o.content <= events
            /\ o.content = 0 => KnownOf("denied", o.user, o.node)'
            /\ o.content \in {0, content[o.node]} \/ KnownOf("overtaken", o.user, o.node)'
      BY <1>2, KnownStays DEF Inv, LoadedOK
    <3> HIDE DEF object
    <3>7. \A o \in loaded' :
            /\ o.content <= events'
            /\ o.content = 0 => KnownOf("denied", o.user, o.node)'
            /\ o.content \in {0, content'[o.node]} \/ KnownOf("overtaken", o.user, o.node)'
      BY <1>1, <3>1, <3>4, <3>5, <3>6 DEF KnownOf
    <3> QED
      BY <1>1, <3>3, <3>7 DEF LoadedOK, Working
  <2>2. CASE Loaded # {}
    BY <1>1, <1>2, <2>2, KnownStays DEF Inv, LoadedOK, Working
  <2> QED
    BY <2>1, <2>2
<1>8. HandledOK'
  BY <1>1, <1>2, <1>6 DEF HandledOK, Handled, Loaded
<1>9. pc' \in {"mail", "delete"}
  BY <1>2
<1>10. RowsOK' /\ DigestOK' /\ Delivered'
  BY <1>1, <1>2, <1>5, <1>9, KnownStays DEF Inv, RowsOK, DigestOK, Digests, Delivered
<1>11. ToldOK'
  BY <1>1, <1>2, <1>5, SameTold
<1> QED
  BY <1>4, <1>7, <1>8, <1>10, <1>11 DEF Inv

\* What a mail changes: who was told of what, or that it failed.
LEMMA SendFacts ==
  ASSUME Inv, item \in Row, NEW C, Send(C)
  PROVE  /\ mails' \in [Users \X Nodes \X Events -> Nat]
         /\ upsets' \in 0..MaxUpsets
         /\ excused \subseteq excused' /\ excused' \subseteq Excuses
         /\ \A u \in Users, n \in Nodes, c \in Events :
              /\ mails'[<<u, n, c>>] \in {mails[<<u, n, c>>], mails[<<u, n, c>>] + 1}
              /\ u # item.user \/ <<n, c>> \notin C
                   => mails'[<<u, n, c>>] = mails[<<u, n, c>>]
              /\ u = item.user /\ <<n, c>> \in C
                   => \/ mails'[<<u, n, c>>] > 0
                      \/ [why |-> "failed", user |-> u] \in excused'
<1>1. /\ mails \in [Users \X Nodes \X Events -> Nat] /\ upsets \in 0..MaxUpsets
      /\ excused \subseteq Excuses /\ item.user \in Users
  BY Types DEF Inv, TypeOK
<1>2. CASE /\ mails' = [m \in DOMAIN mails |->
                          IF m[1] = item.user /\ <<m[2], m[3]>> \in C
                            THEN mails[m] + 1 ELSE mails[m]]
           /\ UNCHANGED <<upsets, excused>>
  <2>1. \A m \in Users \X Nodes \X Events :
          mails'[m] = IF m[1] = item.user /\ <<m[2], m[3]>> \in C
                        THEN mails[m] + 1 ELSE mails[m]
    BY <1>1, <1>2
  <2>2. \A m \in Users \X Nodes \X Events : mails[m] \in Nat /\ mails'[m] \in Nat
    <3> SUFFICES ASSUME NEW m \in Users \X Nodes \X Events
                 PROVE  mails[m] \in Nat /\ mails'[m] \in Nat
      OBVIOUS
    <3>1. mails[m] \in Nat
      BY <1>1
    <3>2. mails'[m] = mails[m] + 1 \/ mails'[m] = mails[m]
      BY <2>1
    <3> QED
      BY <3>1, <3>2
  <2>3. mails' \in [Users \X Nodes \X Events -> Nat]
    BY <1>1, <1>2, <2>2
  <2>4. ASSUME NEW u \in Users, NEW n \in Nodes, NEW c \in Events
        PROVE  /\ mails[<<u, n, c>>] \in Nat
               /\ mails'[<<u, n, c>>] = IF u = item.user /\ <<n, c>> \in C
                                          THEN mails[<<u, n, c>>] + 1
                                          ELSE mails[<<u, n, c>>]
    <3>1. <<u, n, c>> \in Users \X Nodes \X Events
      OBVIOUS
    <3> QED
      BY <2>1, <2>2, <3>1
  <2> QED
    BY <1>1, <1>2, <2>3, <2>4
<1>3. CASE /\ Upset
           /\ excused' = excused \cup {[why |-> "failed", user |-> item.user]}
           /\ UNCHANGED mails
  <2>1. upsets' \in 0..MaxUpsets
    BY <1>1, <1>3, MailAssumption DEF Upset
  <2>2. excused' \subseteq Excuses
    BY <1>1, <1>3 DEF Excuses
  <2> QED
    BY <1>1, <1>3, <2>1, <2>2
<1> QED
  BY <1>2, <1>3 DEF Send

LEMMA SendDigestInv == ASSUME Inv, SendDigest PROVE Inv'
<1> USE DEF CronStep, settings, formVars
<1>1. /\ pc = "digest" /\ pc' = "scan" /\ inDigest' = FALSE /\ items' = {} /\ item \in Row
      /\ CronStep /\ UNCHANGED <<queue, item, standing, loaded, caught>> /\ Send(items)
  BY DEF SendDigest, Inv, LoadedOK, Working
<1>2. TypeOK'
  BY <1>1, SendFacts DEF Inv, TypeOK, Steps
<1>3. Live' = Live /\ excused \subseteq excused'
  BY <1>1, SendFacts DEF Live
<1>4. RowsOK' /\ LoadedOK' /\ HandledOK' /\ DigestOK'
  BY <1>1, <1>3, KnownStays DEF Inv, RowsOK, LoadedOK, HandledOK, DigestOK, Digests, Working
<1>5. ToldOK'
  <2> SUFFICES ASSUME NEW u \in Users, NEW n \in Nodes, NEW c \in Events
               PROVE  ToldRight(u, n, c)'
    BY DEF ToldOK
  <2>1. ToldRight(u, n, c) /\ mails[<<u, n, c>>] \in Nat
    BY Types DEF Inv, ToldOK
  <2>2. Told(u, n, c)' => Told(u, n, c)
    BY <1>1, <2>1, SendFacts DEF Told
  <2>3. NoOlder(u, n, c) => NoOlder(u, n, c)'
    BY <1>1, <1>3 DEF NoOlder
  <2>4. \/ mails'[<<u, n, c>>] = mails[<<u, n, c>>]
        \/ /\ mails'[<<u, n, c>>] = mails[<<u, n, c>>] + 1
           /\ items # {} /\ item.user = u /\ <<n, c>> \in items
    BY <1>1, SendFacts
  <2> QED
    BY <1>1, <1>3, <2>1, <2>2, <2>3, <2>4, KnownStays DEF ToldRight
<1>6. Delivered'
  <2> SUFFICES ASSUME NEW o \in owed, NEW c \in o.event..MaxEvents,
                      \/ mails[o.user, o.node, c] > 0
                      \/ item # Nothing /\ item.user = o.user /\ <<o.node, c>> \in items
               PROVE  mails'[o.user, o.node, c] > 0 \/ Excused(o.user, o.node)'
    BY <1>1, <1>3, KnownStays DEF Inv, Delivered
  <2>1. o.user \in Users /\ o.node \in Nodes /\ o.event \in Events
    BY <1>1 DEF Inv, TypeOK, Notice
  <2>2. c \in Events
    BY <2>1, Later
  <2>3. mails[<<o.user, o.node, c>>] \in Nat
    BY <2>1, <2>2, Types DEF Inv
  <2>4. CASE mails[<<o.user, o.node, c>>] > 0
    <3>1. mails'[<<o.user, o.node, c>>]
            \in {mails[<<o.user, o.node, c>>], mails[<<o.user, o.node, c>>] + 1}
      BY <1>1, <2>1, <2>2, SendFacts
    <3> QED
      BY <2>3, <2>4, <3>1, Grown
  <2>5. CASE item.user = o.user /\ <<o.node, c>> \in items
    <3>1. \/ mails'[<<o.user, o.node, c>>] > 0
          \/ [why |-> "failed", user |-> o.user] \in excused'
      BY <1>1, <2>1, <2>2, <2>5, SendFacts
    <3> QED
      BY <3>1 DEF Excused
  <2> QED
    BY <2>4, <2>5
<1> QED
  BY <1>2, <1>4, <1>5, <1>6 DEF Inv

\* The row in hand is of the event that was loaded, or older: nobody was told
\* of it before.
LEMMA MailInv == ASSUME Inv, Mail PROVE Inv'
<1> DEFINE C == {<<o.node, o.content>> : o \in Loaded}
<1> USE DEF CronStep, settings, formVars
<1>1. /\ pc = "mail" /\ pc' = "delete" /\ item \in Row
      /\ ReadDefault
      /\ item \in Live /\ item # Nothing
      /\ CronStep /\ UNCHANGED <<queue, item, loaded, caught>>
      /\ \/ items' = items \cup C /\ UNCHANGED <<upsets, mails, excused>>
         \/ Send(C) /\ UNCHANGED items
  BY MailAssumption DEF Mail, Inv, LoadedOK, Working, Live
<1>a. inDigest' \in BOOLEAN /\ (inDigest' \/ items' = items)
  BY DEF Mail
<1>b. inDigest' <=> \/ item.digest = "digests"
                    \/ item.digest = "default" /\ TRUE \in standing'
  BY DEF Mail
<1>2. PICK o \in loaded : o.user = item.user /\ o.node = item.node /\ o.content # 0
  BY <1>1 DEF Inv, HandledOK, Loaded
<1>3. C = {<<item.node, o.content>>}
  BY <1>2 DEF Inv, LoadedOK, Loaded
<1>4. o.content \in Events /\ item.node \in Nodes /\ item.user \in Users
      /\ item.event \in Nat /\ o.content <= events
  <2>1. o.content \in Events
    <3>1. o \in Object
      BY <1>2 DEF Inv, TypeOK
    <3>2. o.content \in 0..MaxEvents
      BY <3>1 DEF Object
    <3>3. MaxEvents \in Nat
      BY MailAssumption
    <3> QED
      BY <1>2, <3>2, <3>3 DEF Events
  <2>2. o.content <= events
    BY DEF Inv, LoadedOK
  <2>3. item.node \in Nodes /\ item.user \in Users /\ item.event \in Nat
    BY <1>1, Types DEF Inv
  <2> QED
    BY <2>1, <2>2, <2>3
<1>5. /\ mails' \in [Users \X Nodes \X Events -> Nat]
      /\ upsets' \in 0..MaxUpsets
      /\ excused \subseteq excused' /\ excused' \subseteq Excuses
  BY <1>1, SendFacts DEF Inv, TypeOK
<1>6. items' \subseteq Nodes \X Events /\ items \subseteq items'
      /\ items' \subseteq items \cup {<<item.node, o.content>>}
  BY <1>1, <1>3, <1>4 DEF Inv, TypeOK
<1> HIDE DEF C
<1>7. TypeOK'
  <2>1. inDigest' \in BOOLEAN /\ standing' \subseteq BOOLEAN
    BY <1>1, <1>a DEF ReadDefault, Inv, TypeOK
  <2> QED
    BY <1>1, <1>5, <1>6, <2>1 DEF Inv, TypeOK, Steps
<1>8. Live' \subseteq Live
  BY <1>1 DEF Live
<1>9. RowsOK' /\ LoadedOK'
  BY <1>1, <1>5, <1>8, KnownStays DEF Inv, RowsOK, LoadedOK, Working
<1>10. \/ mails'[<<item.user, item.node, o.content>>] > 0
       \/ <<item.node, o.content>> \in items'
       \/ [why |-> "failed", user |-> item.user] \in excused'
  BY <1>1, <1>3, <1>4, SendFacts
<1>11. HandledOK'
  <2>1. o \in Loaded'
    BY <1>1, <1>2 DEF Loaded
  <2>2. Handled(o)'
    BY <1>2, <1>10 DEF Handled, Known
  <2> QED
    BY <1>1, <2>1, <2>2 DEF HandledOK
<1>12. DigestOK'
  <2>1. item.digest # digest[item.user] => Known("switched", item.user)'
    BY <1>1, <1>5, KnownStays DEF Inv, RowsOK
  <2>2. standing' \notin {{}, {default}} => \A u \in Users : Known("switched", u)'
    BY <1>1, <1>5, KnownStays DEF ReadDefault, Inv, DigestOK
  <2>3. item.digest = "default" => standing' # {}
    BY <1>1 DEF ReadDefault
  <2>4. default \in BOOLEAN /\ item.user \in Users
    BY <1>1, Types DEF Inv, TypeOK
  <2>5. \/ Known("switched", item.user)'
        \/ inDigest' <=> Digests(item.user)
    <3> SUFFICES ASSUME item.digest = digest[item.user],
                        standing' \in {{}, {default}}
                 PROVE  inDigest' <=> Digests(item.user)
      BY <1>1, <2>1, <2>2, <2>4 DEF Known
    <3>1. CASE item.digest = "default"
      <4>1. standing' = {default}
        BY <2>3, <3>1
      <4>2. TRUE \in standing' <=> default
        BY <2>4, <4>1
      <4>3. Digests(item.user) <=> default
        BY <3>1 DEF Digests
      <4> QED
        BY <1>b, <3>1, <4>2, <4>3
    <3>2. CASE item.digest # "default"
      <4>1. digest[item.user] = item.digest
        OBVIOUS
      <4>2. ~(digest[item.user] = "default" /\ default)
        BY <3>2, <4>1, Zenon
      <4>3. Digests(item.user) <=> digest[item.user] = "digests"
        BY <4>2, Zenon DEF Digests
      <4> QED
        BY <1>b, <3>2, <4>1, <4>3, Zenon
    <3> QED
      BY <3>1, <3>2
  <2>6. Digests(item.user)' <=> Digests(item.user)
    BY <1>1 DEF Digests
  <2>7. CASE inDigest'
    BY <1>1, <2>2, <2>5, <2>6, <2>7 DEF DigestOK, Known
  <2>8. CASE ~inDigest'
    <3>1. items' = items
      BY <1>a, <2>8
    <3>2. items # {} => Digests(item.user) \/ Known("switched", item.user)
      BY DEF Inv, DigestOK
    <3>3. items # {} => Known("switched", item.user)'
      BY <1>1, <1>5, <2>5, <2>8, <3>2, KnownStays DEF Known
    <3> QED
      BY <1>1, <2>2, <3>1, <3>3 DEF DigestOK, Known
  <2> QED
    BY <2>7, <2>8
<1>13. ToldOK'
  <2> SUFFICES ASSUME NEW u \in Users, NEW n \in Nodes, NEW c \in Events
               PROVE  ToldRight(u, n, c)'
    BY DEF ToldOK
  <2> DEFINE this == u = item.user /\ n = item.node /\ c = o.content
             that == mails[<<u, n, c>>]
  <2>1. ToldRight(u, n, c) /\ that \in Nat
    BY Types DEF Inv, ToldOK
  <2>2. CASE ~this
    <3>1. u # item.user \/ <<n, c>> \notin C
      BY <1>3, <2>2
    <3>2. mails'[<<u, n, c>>] = that
      BY <1>1, <3>1, SendFacts
    <3>3. <<n, c>> \in items' /\ item'.user = u => <<n, c>> \in items
      BY <1>1, <1>6, <2>2
    <3>4. Told(u, n, c)' => Told(u, n, c)
      BY <1>1, <3>2, <3>3 DEF Told
    <3>5. NoOlder(u, n, c) => NoOlder(u, n, c)'
      BY <1>1, <1>8 DEF NoOlder
    <3> QED
      BY <1>1, <1>5, <2>1, <3>2, <3>3, <3>4, <3>5, KnownStays DEF ToldRight
  <2>3. CASE this
    <3>1. NoOlder(u, n, c)' /\ c <= events'
      BY <1>1, <1>4, <2>3 DEF NoOlder
    <3>2. CASE Known("died", u) \/ KnownOf("overtaken", u, n)
      BY <1>5, <3>1, <3>2, KnownStays DEF ToldRight
    <3>3. CASE ~Known("died", u) /\ ~KnownOf("overtaken", u, n)
      <4>1. c = content[n]
        BY <1>2, <2>3, <3>3 DEF Inv, LoadedOK
      <4>2. item.event <= c
        BY <1>1, <2>3, <4>1 DEF Inv, RowsOK
      <4>3. ~NoOlder(u, n, c)
        BY <1>1, <1>4, <2>3, <4>2, Types DEF Inv, NoOlder
      <4>4. that = 0 /\ ~Told(u, n, c)
        BY <2>1, <3>3, <4>3 DEF ToldRight, Told
      <4>5. mails'[<<u, n, c>>] \in {0, 1}
        <5>1. mails'[<<u, n, c>>] \in {that, that + 1}
          BY <1>1, SendFacts
        <5> QED
          BY <4>4, <5>1
      <4>6. items' # {} /\ item'.user = u /\ <<n, c>> \in items' => mails'[<<u, n, c>>] = 0
        BY <1>1, <2>3, <4>4 DEF Told
      <4> QED
        BY <3>1, <4>5, <4>6 DEF ToldRight
    <3> QED
      BY <3>2, <3>3
  <2> QED
    BY <2>2, <2>3
<1>14. Delivered'
  <2>1. \A u \in Users, n \in Nodes, c \in Events :
          mails[<<u, n, c>>] > 0 => mails'[<<u, n, c>>] > 0
    <3> SUFFICES ASSUME NEW u \in Users, NEW n \in Nodes, NEW c \in Events
                 PROVE  mails[<<u, n, c>>] > 0 => mails'[<<u, n, c>>] > 0
      OBVIOUS
    <3>1. mails'[<<u, n, c>>] \in {mails[<<u, n, c>>], mails[<<u, n, c>>] + 1}
      BY <1>1, SendFacts
    <3>2. mails[<<u, n, c>>] \in Nat
      BY Types DEF Inv
    <3> QED
      BY <3>1, <3>2
  <2> SUFFICES ASSUME NEW w \in owed, NEW c \in w.event..MaxEvents,
                      mails[w.user, w.node, c] > 0
               PROVE  mails'[w.user, w.node, c] > 0
    BY <1>1, <1>5, <1>6, KnownStays DEF Inv, Delivered
  <2>2. w.user \in Users /\ w.node \in Nodes /\ w.event \in Events
    BY DEF Inv, TypeOK, Notice
  <2>3. c \in Events
    BY <2>2, Later
  <2> QED
    BY <2>1, <2>2, <2>3
<1> QED
  BY <1>7, <1>9, <1>11, <1>12, <1>13, <1>14 DEF Inv

-----------------------------------------------------------------------------
LEMMA NextInv == Inv /\ [Next]_vars => Inv'
<1> SUFFICES ASSUME Inv, [Next]_vars PROVE Inv'
  OBVIOUS
<1>1. CASE \E n \in Nodes : Save(n)
  BY <1>1, SaveInv
<1>2. CASE \E r \in queue : Ripen(r) \/ Pick(r)
  BY <1>2, RipenInv, PickInv
<1>3. CASE SwitchDefault \/ \E u \in Users, d \in Digest : SwitchDigest(u, d)
  BY <1>3, SwitchInv
<1>4. CASE (\E u \in Users, n \in Nodes : Revoke(u, n)) \/ (Purge /\ Users # {})
  BY <1>4, ChangeInv
<1>5. CASE Purge /\ Users = {}
  <2>1. queue = {} /\ queue' = {} /\ owed' = owed /\ excused' = excused
    BY <1>5, Types DEF Purge, Change, Inv
  <2>2. TypeOK'
    BY <1>5, <2>1, MailAssumption
    DEF Purge, Change, Upset, Inv, TypeOK, settings, formVars
  <2> QED
    BY <1>5, <2>1, <2>2, QuietInv DEF Purge, Change, settings
<1>12. CASE \E u \in Users : \E to, drop \in BOOLEAN : Submit(u, to, drop)
  BY <1>12, SubmitInv
<1>13. CASE \E x \in submits : Proceed(x) \/ Cut(x)
  BY <1>13, HandlerInv
<1>6. CASE Begin
  BY <1>6, BeginInv
<1>7. CASE Stop
  BY <1>7, StopInv
<1>8. CASE Load \/ Mail \/ Delete
  BY <1>8, LoadInv, MailInv, DeleteInv
<1>9. CASE NoItem \/ SendDigest \/ \E r \in queue : NextItem(r)
  BY <1>9, NoItemInv, SendDigestInv, NextItemInv
<1>10. CASE Die
  BY <1>10, DieInv
<1>11. CASE UNCHANGED vars
  <2>1. TypeOK'
    BY <1>11 DEF Inv, TypeOK, vars, queueVars, settings, formVars, cronVars
  <2> QED
    BY <1>11, <2>1, QuietInv DEF vars, queueVars, settings, cronVars, Like
<1> QED
  BY <1>1, <1>2, <1>3, <1>4, <1>5, <1>6, <1>7, <1>8, <1>9, <1>10, <1>11, <1>12, <1>13
  DEF Next, Cron

\* The invariant that the theorems below rest on holds in every run of cron and
\* whatever users and editors do meanwhile.
THEOREM InvHolds == Spec => []Inv
<1>1. Init => Inv
  BY InitInv
<1>2. Inv /\ [Next]_vars => Inv'
  BY NextInv
<1> QED
  BY <1>1, <1>2, PTL DEF Spec

\* Every variable has its type.
THEOREM TypeCorrect == Spec => []TypeOK
<1>1. Inv => TypeOK
  BY DEF Inv
<1> QED
  BY <1>1, InvHolds, PTL

\* What was queued is still there, was mailed, or was lost for one of the
\* reasons listed: no order of saves, cron steps, failures and changes of
\* settings loses a notification in silence.
THEOREM NothingLost == Spec => []Delivered
<1>1. Inv => Delivered
  BY DEF Inv
<1> QED
  BY <1>1, InvHolds, PTL

\* Nobody is mailed twice about the same state of a node, but after a run that
\* died or a node that was saved while a run had it loaded.
THEOREM NobodyToldTwice == Spec => []NoDuplicate
<1>1. Inv => NoDuplicate
  BY DEF Inv, ToldOK, ToldRight, NoDuplicate, Known, KnownOf
<1> QED
  BY <1>1, InvHolds, PTL

-----------------------------------------------------------------------------
\* The rows of a user agree with the setting where no submission is between the
\* two, and none has left them torn.
MarkedOK ==
    \A u \in Users \ torn :
      /\ \A x, y \in Storing(u) : x = y
      /\ \A x \in Storing(u) : x.to <=> u \in suspended
      /\ Storing(u) = {} => \A r \in queue : r.user = u => (r.suspended <=> u \in suspended)

\* Cron is at work on a user with suspended notifications only if they were
\* suspended after it had picked the user.
CaughtOK ==
    Working /\ item.user \in suspended /\ Settled(item.user) => caught

\* Steps that leave the settings and the columns alone.
LEMMA ColumnsStay ==
  ASSUME MarkedOK, UNCHANGED <<suspended, submits, torn>>,
         \A q \in queue' : \E r \in queue : q.user = r.user /\ q.suspended = r.suspended
  PROVE  MarkedOK'
  BY DEF MarkedOK, Storing

LEMMA MarkedNext == TypeOK /\ MarkedOK /\ [Next]_vars => MarkedOK'
<1> SUFFICES ASSUME TypeOK, MarkedOK, [Next]_vars PROVE MarkedOK'
  OBVIOUS
<1> USE DEF settings, formVars
<1>1. CASE UNCHANGED vars
  BY <1>1, ColumnsStay DEF vars, queueVars
<1>2. ASSUME NEW n \in Nodes, Save(n) PROVE MarkedOK'
  <2>1. ASSUME NEW r \in queue', r \notin queue
        PROVE  r.suspended <=> r.user \in suspended
    <3>1. PICK s \in Matching(n) :
            r = [user |-> s.user, field |-> s.field, node |-> n, event |-> events',
                 digest |-> digest[s.user], suspended |-> s.user \in suspended,
                 ready |-> FALSE]
      BY <1>2, <2>1 DEF Save
    <3> QED
      BY <3>1
  <2> QED
    BY <1>2, <2>1 DEF Save, MarkedOK, Storing
<1>3. ASSUME NEW r \in queue, Ripen(r) PROVE MarkedOK'
  <2>1. r \in Row
    BY DEF TypeOK
  <2>2. [r EXCEPT !.ready = TRUE].user = r.user
        /\ [r EXCEPT !.ready = TRUE].suspended = r.suspended
    BY <2>1 DEF Row
  <2>3. queue' \subseteq queue \cup {[r EXCEPT !.ready = TRUE]}
    BY <1>3 DEF Ripen
  <2> QED
    BY <1>3, <2>2, <2>3, ColumnsStay DEF Ripen
<1>4. CASE \/ SwitchDefault \/ Purge
           \/ \E u \in Users, d \in Digest : SwitchDigest(u, d)
           \/ \E u \in Users, n \in Nodes : Revoke(u, n)
  BY <1>4, ColumnsStay DEF SwitchDefault, Purge, SwitchDigest, Revoke, Change
<1>5. ASSUME NEW u \in Users, NEW to \in BOOLEAN, NEW drop \in BOOLEAN,
             Submit(u, to, drop)
      PROVE  MarkedOK'
  <2>1. \A v : Storing(v)' = Storing(v)
    BY <1>5 DEF Submit, Storing
  <2> QED
    BY <1>5, <2>1 DEF Submit, Handler, MarkedOK
<1>6. ASSUME NEW x \in submits, DropRows(x) PROVE MarkedOK'
  <2>1. x \in Submission /\ queue' \subseteq queue
    BY <1>6 DEF DropRows, TypeOK
  <2>2. \A v : Storing(v)' = Storing(v)
    BY <1>6, <2>1 DEF DropRows, Storing, Submission
  <2> QED
    BY <1>6, <2>1, <2>2 DEF DropRows, Handler, MarkedOK
<1>7. ASSUME NEW x \in submits, StoreUser(x) PROVE MarkedOK'
  <2> DEFINE y == [x EXCEPT !.step = "queue"]
  <2>1. x \in Submission /\ y.user = x.user /\ y.step = "queue" /\ y.to = x.to
    BY DEF TypeOK, Submission
  <2>2. submits' = (submits \ {x}) \cup {y} /\ x.step = "user" /\ queue' = queue
    BY <1>7 DEF StoreUser
  <2> HIDE DEF y
  <2>3. /\ \A v : v # x.user => Storing(v)' = Storing(v)
        /\ Storing(x.user)' = Storing(x.user) \cup {y}
    BY <2>1, <2>2 DEF Storing
  <2> SUFFICES ASSUME NEW u \in Users \ torn'
               PROVE  /\ \A w, z \in Storing(u)' : w = z
                      /\ \A w \in Storing(u)' : w.to <=> u \in suspended'
                      /\ Storing(u)' = {} => \A r \in queue :
                            r.user = u => (r.suspended <=> u \in suspended')
    BY <2>2 DEF MarkedOK
  <2>4. CASE u = x.user
    <3>1. Storing(u) = {}
      BY <1>7, <2>4 DEF StoreUser
    <3>2. Storing(u)' = {y}
      BY <2>3, <2>4, <3>1
    <3>3. x.to <=> u \in suspended'
      BY <1>7, <2>4 DEF StoreUser
    <3> QED
      BY <2>1, <3>2, <3>3
  <2>5. CASE u # x.user
    <3>1. u \in Users \ torn /\ (u \in suspended' <=> u \in suspended)
      BY <1>7, <2>5 DEF StoreUser
    <3> QED
      BY <2>3, <2>5, <3>1 DEF MarkedOK
  <2> QED
    BY <2>4, <2>5
<1>8. ASSUME NEW x \in submits, StoreRows(x) PROVE MarkedOK'
  <2> DEFINE mark(r) == IF r.user = x.user THEN [r EXCEPT !.suspended = x.to] ELSE r
  <2>1. /\ queue' = {mark(r) : r \in queue} /\ queue \subseteq Row
        /\ x.step = "queue" /\ submits' = submits \ {x}
        /\ UNCHANGED <<suspended, torn>>
    BY <1>8 DEF StoreRows, TypeOK
  <2>2. \A r \in Row : /\ mark(r).user = r.user
                       /\ mark(r).suspended = IF r.user = x.user THEN x.to
                                                                ELSE r.suspended
    BY DEF Row
  <2> HIDE DEF mark
  <2>3. Storing(x.user)' = Storing(x.user) \ {x} /\ x \in Storing(x.user)
        /\ \A v : v # x.user => Storing(v)' = Storing(v)
    BY <2>1 DEF Storing
  <2> SUFFICES ASSUME NEW u \in Users \ torn
               PROVE  /\ \A w, z \in Storing(u)' : w = z
                      /\ \A w \in Storing(u)' : w.to <=> u \in suspended
                      /\ Storing(u)' = {} => \A r \in queue' :
                            r.user = u => (r.suspended <=> u \in suspended)
    BY <2>1 DEF MarkedOK
  <2>4. CASE u = x.user
    <3>1. x.to <=> u \in suspended
      BY <2>3, <2>4 DEF MarkedOK
    <3>2. Storing(u)' = {}
      BY <2>3, <2>4 DEF MarkedOK
    <3>3. \A r \in queue' : r.user = u => r.suspended = x.to
      BY <2>1, <2>2, <2>4
    <3> QED
      BY <3>1, <3>2, <3>3
  <2>5. CASE u # x.user
    <3>1. \A q \in queue' : q.user = u => q \in queue
      <4> SUFFICES ASSUME NEW r \in queue, mark(r).user = u PROVE mark(r) \in queue
        BY <2>1
      <4>1. r.user # x.user
        BY <2>1, <2>2, <2>5
      <4> QED
        BY <4>1 DEF mark
    <3> QED
      BY <2>3, <2>5, <3>1 DEF MarkedOK
  <2> QED
    BY <2>4, <2>5
<1>9. ASSUME NEW x \in submits, Cut(x) PROVE MarkedOK'
  <2>1. /\ \A v : v # x.user \/ x.step # "queue" => Storing(v)' = Storing(v)
        /\ x.step = "queue" => x.user \in torn'
        /\ torn \subseteq torn'
    BY <1>9 DEF Cut, Storing
  <2> QED
    BY <1>9, <2>1 DEF Cut, MarkedOK
<1>10. CASE Begin \/ Stop \/ Die \/ \E r \in queue : Pick(r)
  BY <1>10, ColumnsStay DEF Begin, Stop, Die, Pick, CronStep
<1>11. CASE \/ Load \/ Mail \/ Delete \/ NoItem \/ SendDigest
            \/ \E r \in queue : NextItem(r)
  BY <1>11, ColumnsStay DEF Load, Mail, Delete, NoItem, SendDigest, NextItem, CronStep
<1> QED
  BY <1>1, <1>2, <1>3, <1>4, <1>5, <1>6, <1>7, <1>8, <1>9, <1>10, <1>11
  DEF Next, Cron, Proceed

LEMMA CaughtNext ==
  TypeOK /\ Inv /\ MarkedOK /\ CaughtOK /\ [Next]_vars => CaughtOK'
<1> SUFFICES ASSUME TypeOK, Inv, MarkedOK, CaughtOK, [Next]_vars PROVE CaughtOK'
  OBVIOUS
<1> USE DEF settings, formVars
<1>1. CASE UNCHANGED vars
  BY <1>1 DEF CaughtOK, Settled, Storing, Working, vars, cronVars
<1>2. ASSUME NEW n \in Nodes, Save(n) PROVE CaughtOK'
  BY <1>2 DEF CaughtOK, Settled, Storing, Working, Save, cronVars
<1>3. ASSUME NEW r \in queue, Ripen(r) PROVE CaughtOK'
  BY <1>3 DEF CaughtOK, Settled, Storing, Working, Ripen, cronVars
<1>4. ASSUME NEW r \in queue, Pick(r) PROVE CaughtOK'
  <2>1. r.user \in Users /\ ~r.suspended
    BY <1>4, Types DEF Pick
  <2>2. r.user \in suspended => ~Settled(r.user)
    BY <2>1 DEF MarkedOK, Settled
  <2> QED
    BY <1>4, <2>2 DEF CaughtOK, Settled, Storing, Pick, CronStep
<1>5. CASE \/ SwitchDefault \/ Purge
           \/ \E u \in Users, d \in Digest : SwitchDigest(u, d)
           \/ \E u \in Users, n \in Nodes : Revoke(u, n)
  BY <1>5
  DEF CaughtOK, Settled, Storing, Working, SwitchDefault, Purge, SwitchDigest, Revoke, Change
<1>6. ASSUME NEW u \in Users, NEW to \in BOOLEAN, NEW drop \in BOOLEAN,
             Submit(u, to, drop)
      PROVE  CaughtOK'
  BY <1>6 DEF CaughtOK, Settled, Storing, Working, Submit, Handler
<1>7. ASSUME NEW x \in submits, DropRows(x) PROVE CaughtOK'
  <2>1. x \in Submission
    BY DEF TypeOK
  <2>2. \A v : Storing(v)' = Storing(v)
    BY <1>7, <2>1 DEF DropRows, Storing, Submission
  <2> QED
    BY <1>7, <2>2 DEF CaughtOK, Settled, Working, DropRows, Handler
<1>8. ASSUME NEW x \in submits, StoreUser(x) PROVE CaughtOK'
  <2> DEFINE y == [x EXCEPT !.step = "queue"]
  <2>1. x \in Submission /\ y.user = x.user /\ y.step = "queue"
    BY DEF TypeOK, Submission
  <2>2. submits' = (submits \ {x}) \cup {y} /\ x.step = "user"
    BY <1>8 DEF StoreUser
  <2> HIDE DEF y
  <2>3. \A v : Settled(v)' => v # x.user /\ Settled(v)
    BY <1>8, <2>1, <2>2 DEF Settled, Storing, StoreUser
  <2> QED
    BY <1>8, <2>3 DEF CaughtOK, Working, StoreUser, Handler
<1>9. ASSUME NEW x \in submits, StoreRows(x) PROVE CaughtOK'
  <2>1. UNCHANGED <<pc, item, suspended, torn>> /\ submits' = submits \ {x}
        /\ x.step = "queue" /\ caught' = (caught \/ (Working /\ x.user = item.user /\ x.to))
    BY <1>9 DEF StoreRows, Handler
  <2>2. CASE Working /\ item.user = x.user
    <3>1. item.user \in Users
      BY <2>2, Types DEF Inv, LoadedOK
    <3>2. x \in Storing(x.user)
      BY <2>1 DEF Storing
    <3>3. item.user \notin torn /\ item.user \in suspended => x.to
      BY <2>2, <3>1, <3>2 DEF MarkedOK
    <3> QED
      BY <2>1, <2>2, <3>3 DEF CaughtOK, Settled, Working
  <2>3. CASE Working /\ item.user # x.user
    BY <2>1, <2>3 DEF CaughtOK, Settled, Storing, Working
  <2> QED
    BY <2>1, <2>2, <2>3 DEF CaughtOK, Working
<1>10. ASSUME NEW x \in submits, Cut(x) PROVE CaughtOK'
  <2>1. \A v : Settled(v)' => Settled(v)
    BY <1>10 DEF Settled, Storing, Cut
  <2> QED
    BY <1>10, <2>1 DEF CaughtOK, Working, Cut, Handler
<1>11. CASE Begin \/ Stop \/ Die
  BY <1>11 DEF CaughtOK, Settled, Storing, Working, Begin, Stop, Die, CronStep
<1>12. CASE Load
  BY <1>12 DEF CaughtOK, Settled, Storing, Working, Load, CronStep
<1>13. CASE Mail
  BY <1>13 DEF CaughtOK, Settled, Storing, Working, Mail, CronStep
<1>14. CASE Delete \/ NoItem \/ SendDigest
  BY <1>14 DEF CaughtOK, Settled, Storing, Working, Delete, NoItem, SendDigest, CronStep
<1>15. ASSUME NEW r \in queue, NextItem(r) PROVE CaughtOK'
  BY <1>15 DEF CaughtOK, Settled, Storing, Working, NextItem, CronStep
<1> QED
  BY <1>1, <1>2, <1>3, <1>4, <1>5, <1>6, <1>7, <1>8, <1>9, <1>10, <1>11, <1>12, <1>13,
     <1>14, <1>15 DEF Next, Cron, Proceed

\* Where rows are lost: by the DELETE of cron, by a submission, by the upsets.
LEMMA LostWhere ==
  ASSUME TypeOK, [Next]_vars, NEW r \in Lost
  PROVE  \/ Delete /\ r.user = item.user
         \/ \E x \in submits \ submits' : x.user = r.user /\ x.step = "drop"
         \/ upsets' > upsets
<1> DEFINE Same(q) == q.user = r.user /\ q.field = r.field /\ q.node = r.node
                      /\ q.event = r.event
<1>1. r \in queue /\ r \in Row /\ \A q \in queue' : ~Same(q)
  BY DEF Lost, TypeOK
<1>2. upsets \in Nat
  BY MailAssumption DEF TypeOK
<1>3. queue \subseteq queue' => FALSE
  BY <1>1
<1>4. ASSUME NEW q \in queue, Ripen(q) PROVE FALSE
  <2>1. q = r /\ [q EXCEPT !.ready = TRUE] \in queue'
    BY <1>1, <1>4 DEF Ripen
  <2>2. Same([r EXCEPT !.ready = TRUE])
    BY <1>1 DEF Row
  <2> QED
    BY <1>1, <2>1, <2>2
<1>5. CASE \/ SwitchDefault \/ Purge
           \/ \E u \in Users, d \in Digest : SwitchDigest(u, d)
           \/ \E u \in Users, n \in Nodes : Revoke(u, n)
  BY <1>2, <1>5 DEF SwitchDefault, Purge, SwitchDigest, Revoke, Change, Upset
<1>6. ASSUME NEW x \in submits, DropRows(x)
      PROVE  x \in submits \ submits' /\ x.user = r.user /\ x.step = "drop"
  <2>1. x \in Submission
    BY DEF TypeOK
  <2>2. x # [x EXCEPT !.step = "user"]
    BY <1>6, <2>1 DEF DropRows, Submission
  <2> QED
    BY <1>1, <1>6, <2>2 DEF DropRows
<1>7. ASSUME NEW x \in submits, StoreRows(x) PROVE FALSE
  <2> DEFINE marked == IF r.user = x.user THEN [r EXCEPT !.suspended = x.to] ELSE r
  <2>1. marked \in queue'
    BY <1>1, <1>7 DEF StoreRows
  <2>2. Same(marked)
    BY <1>1 DEF Row
  <2> QED
    BY <1>1, <2>1, <2>2
<1>8. CASE \/ \E u \in Users : \E to, drop \in BOOLEAN : Submit(u, to, drop)
           \/ \E x \in submits : StoreUser(x) \/ Cut(x)
  BY <1>3, <1>8 DEF Submit, StoreUser, Cut
<1>9. CASE Delete
  BY <1>1, <1>9 DEF Delete
<1>10. ASSUME NEW n \in Nodes, Save(n) PROVE FALSE
  BY <1>3, <1>10 DEF Save
<1>11. CASE UNCHANGED vars \/ Begin \/ Stop \/ Die \/ \E q \in queue : Pick(q)
  BY <1>3, <1>11 DEF vars, queueVars, Begin, Stop, Die, Pick
<1>12. CASE Load \/ Mail \/ NoItem \/ SendDigest \/ \E q \in queue : NextItem(q)
  BY <1>3, <1>12 DEF Load, Mail, NoItem, SendDigest, NextItem
<1> QED
  BY <1>4, <1>5, <1>6, <1>7, <1>8, <1>9, <1>10, <1>11, <1>12 DEF Next, Cron, Proceed

\* Rows of users with suspended notifications stay in the queue until they are
\* dropped, unless cron was at work on the user when the rows were suspended, or
\* a submission is between its UPDATEs or was cut there or crossed another.
THEOREM SuspendedRowsKept == Spec => SuspendedKept
<1>1. Init => MarkedOK /\ CaughtOK
  BY DEF Init, MarkedOK, Storing, CaughtOK, Working
<1>2. Inv => TypeOK
  BY DEF Inv
<1>3. TypeOK /\ CaughtOK /\ [Next]_vars
        => [\A r \in Lost : r.user \in suspended /\ Settled(r.user) =>
              \/ Working /\ caught /\ r.user = item.user
              \/ \E x \in submits \ submits' : x.user = r.user /\ x.step = "drop"
              \/ upsets' > upsets]_vars
  <2> SUFFICES ASSUME TypeOK, CaughtOK, [Next]_vars, NEW r \in Lost,
                      r.user \in suspended, Settled(r.user)
               PROVE  \/ Working /\ caught /\ r.user = item.user
                      \/ \E x \in submits \ submits' : x.user = r.user /\ x.step = "drop"
                      \/ upsets' > upsets
    OBVIOUS
  <2>1. CASE Delete /\ r.user = item.user
    BY <2>1 DEF Delete, CaughtOK, Working
  <2> QED
    BY <2>1, LostWhere
<1>4. Spec => [](MarkedOK /\ CaughtOK)
  BY <1>1, <1>2, MarkedNext, CaughtNext, InvHolds, PTL DEF Spec
<1> QED
  BY <1>2, <1>3, <1>4, InvHolds, PTL DEF Spec, SuspendedKept
=============================================================================
