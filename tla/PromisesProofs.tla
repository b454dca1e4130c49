--------------------------- MODULE PromisesProofs ---------------------------
(***************************************************************************)
(* The pages of workflows, wallets and of the facilitator, and plans: the  *)
(* chain executor, its search for cycles, and the estimates. With what     *)
(* ReasoningProofs has of the other parts of MCReasoning, these give       *)
(* PromisesKept, PlansExact and ReasoningTypeOK: for any number of         *)
(* requests, tasks, callers, nodes and handlers.                           *)
(*                                                                         *)
(* A part that a behaviour is not about stays where it begins, so that the *)
(* invariants of all parts hold together (PartsInv).                       *)
(***************************************************************************)
EXTENDS ReasoningProofs

-----------------------------------------------------------------------------
\* WorkflowPages: a page that has settled shows the status, since the event that told it was
\* published after what it has read, unless an event went past the page (untold).

-----------------------------------------------------------------------------
\* A page of one workflow. A status and the version it is from, against the server's
StatusRight(x, s, v) == x.version = v => Pages!Means(x.status) = s

\* A command that takes its change back
RollsBack(c) == \E r \in Pages!Askers : c[r].pc = "rollback"

\* The requests: an approval that is the latest is the status.
CommandType == [op : Pages!Buttons, version : Nat,
                pc : {"idle", "sent", "funds", "saving", "begin", "run", "rollback", "done"},
                reply : {"none", "ok", "refused", "read"}]

\* The commands under way know at most the server's last status.
CommandsOk(c, s, v) ==
    /\ c = [r \in Pages!Askers |-> c[r]]
    /\ \A r \in Pages!Askers :
          /\ c[r] \in CommandType
          /\ c[r].version <= v
          /\ c[r].version = v /\ v >= 1 => s = "approved"
          /\ c[r].pc = "begin" \/ c[r].reply = "ok" => v >= 1

\* What is saved: the last event of the latest is the status, and its request waits for it.
SavingType == [events : Seq(Pages!Events), version : Nat, by : Pages!Askers \cup {"plan"}]

\* What is being saved will be published, the last status as it is.
SavesOk(q, s, v, c) ==
    /\ q \in Seq(SavingType)
    /\ \A i \in DOMAIN q :
          /\ q[i].version \in 1..v
          /\ q[i].events # <<>>
          /\ q[i].version = v => q[i].events[Len(q[i].events)] = s /\ s \in Pages!Stored
          /\ q[i].by # "plan" => c[q[i].by].pc = "saving"
    /\ \A i, j \in DOMAIN q : q[i].by = q[j].by => i = j \/ q[i].by = "plan"

\* Answers on their way to the page are what was the status.
AnswersOk(q, s, v) ==
    /\ q \in Seq([status : Pages!Stored, version : Nat])
    /\ \A i \in DOMAIN q : q[i].version <= v /\ (q[i].version = v => q[i].status = s)

\* The last event of the latest version is the status, or there is another to come.
InboxOk(q, s, v, c) ==
    /\ q \in Seq([status : Pages!Events, version : Nat])
    /\ \A i \in DOMAIN q : q[i].version <= v
    /\ q # <<>> => StatusRight(q[Len(q)], s, v) \/ RollsBack(c)

\* What the page shows is such an answer, or a command of the page was not done.
ShownOk(pg, sh, ib, so, s, v, c) ==
    /\ sh \in [status : Pages!Events \cup {"none"}, version : Nat] /\ sh.version <= v
    /\ \/ sh = Pages!NothingShown \/ StatusRight(sh, s, v)
       \/ pg = "consumer" /\ (RollsBack(c) \/ ib # <<>> \/ so = "lost")

\* The latest version has been seen, or will be.
Told(pg, sn, ask, ans, ib, sv, v) ==
    \/ sn = v \/ ask > 0
    \/ \E i \in DOMAIN ans : ans[i].version = v
    \/ \E i \in DOMAIN ib : pg = "dashboard" \/ ib[i].version = v
    \/ \E i \in DOMAIN sv : sv[i].version = v

\* The server's side, ...
ServerInv ==
    /\ page \in {"dashboard", "consumer"}
    /\ reported \in Pages!Stored /\ edition \in Nat /\ planning \in BOOLEAN
    /\ ~planning => edition >= 1
    /\ CommandsOk(command, reported, edition)
    /\ SavesOk(saving, reported, edition, command)

\* ... the page's side, ...
ViewInv ==
    /\ AnswersOk(answers, reported, edition)
    /\ InboxOk(inbox, reported, edition, command)
    /\ ShownOk(page, shown, inbox, socket, reported, edition, command)
    /\ seen \in 0..edition /\ asked \in 0..2
    /\ socket \in {"none", "opening", "live", "lost"}
    /\ broken \in BOOLEAN /\ untold \in BOOLEAN /\ pageFaults \in 0..2

\* ... and what ties them: the page will be told.
ToldInv == ~untold => Told(page, seen, asked, answers, inbox, saving, edition)

\* All of it
PageInv == ServerInv /\ ViewInv /\ ToldInv

-----------------------------------------------------------------------------
\* What a new status leaves: everything else is of an older version.
LEMMA PagesBump ==
    ASSUME NEW v \in Nat, NEW s, NEW s2, NEW c, NEW c2
    PROVE  /\ CommandsOk(c, s, v) => CommandsOk(c, s2, v + 1)
           /\ \A q : SavesOk(q, s, v, c) => SavesOk(q, s2, v + 1, c)
           /\ \A q : AnswersOk(q, s, v) => AnswersOk(q, s2, v + 1)
           /\ \A q : InboxOk(q, s, v, c) => InboxOk(q, s2, v + 1, c2)
           /\ \A pg, sh, ib, so : ShownOk(pg, sh, ib, so, s, v, c) =>
                 \A ib2, so2 : ShownOk(pg, sh, ib2, so2, s2, v + 1, c2)
<1>1. CommandsOk(c, s, v) => CommandsOk(c, s2, v + 1)
  BY DEF CommandsOk, CommandType
<1>2. ASSUME NEW q, SavesOk(q, s, v, c) PROVE SavesOk(q, s2, v + 1, c)
  <2>1. \A i \in DOMAIN q : q[i].version \in 1..v
    BY <1>2 DEF SavesOk
  <2>2. \A i \in DOMAIN q : q[i].version \in 1..(v + 1) /\ q[i].version # v + 1
    BY <2>1
  <2> QED
    BY <1>2, <2>2, Zenon DEF SavesOk
<1>3. ASSUME NEW q, AnswersOk(q, s, v) PROVE AnswersOk(q, s2, v + 1)
  <2>1. \A i \in DOMAIN q : q[i].version \in Nat /\ q[i].version <= v
    <3> DEFINE S == [status : Pages!Stored, version : Nat]
    <3>1. \A x \in S : x.version \in Nat
      OBVIOUS
    <3>2. q \in Seq(S) /\ \A i \in DOMAIN q : q[i].version <= v
      BY <1>3, Zenon DEF AnswersOk
    <3> HIDE DEF S
    <3>3. \A i \in DOMAIN q : q[i] \in S
      BY <3>2
    <3> QED
      BY <3>1, <3>2, <3>3, Zenon
  <2>2. \A i \in DOMAIN q : q[i].version <= v + 1 /\ q[i].version # v + 1
    BY <2>1
  <2> QED
    BY <1>3, <2>2, Zenon DEF AnswersOk
<1>4. ASSUME NEW q, InboxOk(q, s, v, c) PROVE InboxOk(q, s2, v + 1, c2)
  <2>1. \A i \in DOMAIN q : q[i].version \in Nat /\ q[i].version <= v
    <3> DEFINE S == [status : Pages!Events, version : Nat]
    <3>1. \A x \in S : x.version \in Nat
      OBVIOUS
    <3>2. q \in Seq(S) /\ \A i \in DOMAIN q : q[i].version <= v
      BY <1>4, Zenon DEF InboxOk
    <3> HIDE DEF S
    <3>3. \A i \in DOMAIN q : q[i] \in S
      BY <3>2
    <3> QED
      BY <3>1, <3>2, <3>3, Zenon
  <2>2. \A i \in DOMAIN q : q[i].version <= v + 1 /\ q[i].version # v + 1
    BY <2>1
  <2>3. q # <<>> => Len(q) \in DOMAIN q
    BY <1>4 DEF InboxOk
  <2>4. q # <<>> => StatusRight(q[Len(q)], s2, v + 1)
    BY <2>2, <2>3, Zenon DEF StatusRight
  <2> QED
    BY <1>4, <2>2, <2>4, Zenon DEF InboxOk
<1>5. ASSUME NEW pg, NEW sh, NEW ib, NEW so, ShownOk(pg, sh, ib, so, s, v, c), NEW ib2, NEW so2
      PROVE  ShownOk(pg, sh, ib2, so2, s2, v + 1, c2)
  <2>1. sh.version \in Nat /\ sh.version <= v
    BY <1>5 DEF ShownOk
  <2>2. sh.version <= v + 1 /\ sh.version # v + 1
    BY <2>1
  <2> QED
    BY <1>5, <2>2, Zenon DEF ShownOk, StatusRight
<1> QED
  BY <1>1, <1>2, <1>3, <1>4, <1>5

LEMMA CommandsSet ==
    ASSUME NEW c, NEW s, NEW v \in Nat, CommandsOk(c, s, v), NEW r \in Pages!Askers, NEW k \in CommandType,
           k.version <= v, k.version = v /\ v >= 1 => s = "approved", k.pc = "begin" \/ k.reply = "ok" => v >= 1
    PROVE  CommandsOk([c EXCEPT ![r] = k], s, v)
BY DEF CommandsOk

LEMMA SavesAppend ==
    ASSUME NEW q, NEW s, NEW v, NEW c, SavesOk(q, s, v, c), NEW e \in SavingType, e.version \in 1..v,
           e.events # <<>>, e.version = v => e.events[Len(e.events)] = s /\ s \in Pages!Stored,
           NEW c2, e.by # "plan" => c2[e.by].pc = "saving" /\ c[e.by].pc # "saving",
           \A r \in Pages!Askers : r # e.by => c2[r].pc = c[r].pc
    PROVE  SavesOk(Append(q, e), s, v, c2)
<1> DEFINE w == Append(q, e)
           n == Len(q)
<1>1. q \in Seq(SavingType)
  BY DEF SavesOk
<1> HIDE DEF SavingType
<1>2. n \in Nat /\ w \in Seq(SavingType) /\ DOMAIN w = 1..(n + 1) /\ DOMAIN q = 1..n
  BY <1>1
<1>3. w[n + 1] = e /\ \A i \in 1..n : w[i] = q[i]
  BY <1>1
<1>4. \A i \in 1..(n + 1) : i \in 1..n \/ i = n + 1
  BY <1>2
<1>5. ASSUME NEW i \in 1..n
      PROVE  /\ q[i].version \in 1..v /\ q[i].events # <<>>
             /\ q[i].version = v => q[i].events[Len(q[i].events)] = s /\ s \in Pages!Stored
             /\ q[i].by # "plan" => c2[q[i].by].pc = "saving" /\ q[i].by # e.by
  <2>1. q[i].by \in Pages!Askers \cup {"plan"}
    <3>1. q[i] \in SavingType
      BY <1>1, <1>2
    <3> QED
      BY <3>1 DEF SavingType
  <2>2. q[i].by # "plan" => c[q[i].by].pc = "saving"
    BY <1>2, Zenon DEF SavesOk
  <2>3. q[i].by # "plan" => q[i].by # e.by
    BY <2>2
  <2> QED
    BY <1>2, <2>1, <2>2, <2>3, Zenon DEF SavesOk
<1> HIDE DEF w, n
<1>6. \A i \in 1..(n + 1) :
         /\ w[i].version \in 1..v /\ w[i].events # <<>>
         /\ w[i].version = v => w[i].events[Len(w[i].events)] = s /\ s \in Pages!Stored
         /\ w[i].by # "plan" => c2[w[i].by].pc = "saving"
  BY <1>3, <1>4, <1>5, Zenon
<1>7. \A i, j \in 1..(n + 1) : w[i].by = w[j].by => i = j \/ w[i].by = "plan"
  <2>1. \A i, j \in 1..n : q[i].by = q[j].by => i = j \/ q[i].by = "plan"
    BY <1>2, Zenon DEF SavesOk
  <2> QED
    BY <1>3, <1>4, <1>5, <2>1, Zenon
<1> QED
  BY <1>2, <1>6, <1>7, Zenon DEF SavesOk, w

LEMMA SavesTail ==
    ASSUME NEW q, NEW s, NEW v, NEW c, SavesOk(q, s, v, c), q # <<>>
    PROVE  /\ Head(q) \in SavingType /\ Head(q).version \in 1..v /\ Head(q).events # <<>>
           /\ Head(q).version = v => Head(q).events[Len(Head(q).events)] = s /\ s \in Pages!Stored
           /\ Head(q).by # "plan" => c[Head(q).by].pc = "saving"
           /\ \A c2 : (\A r \in Pages!Askers : r # Head(q).by => c2[r].pc = c[r].pc) => SavesOk(Tail(q), s, v, c2)
           /\ \A i \in DOMAIN q : i # 1 => i - 1 \in DOMAIN Tail(q) /\ Tail(q)[i - 1] = q[i]
<1> DEFINE w == Tail(q)
           n == Len(q)
<1>1. q \in Seq(SavingType)
  BY DEF SavesOk
<1> HIDE DEF SavingType
<1>2. n \in Nat \ {0} /\ w \in Seq(SavingType) /\ DOMAIN w = 1..(n - 1) /\ DOMAIN q = 1..n /\ Head(q) = q[1]
  BY <1>1
<1>3. \A i \in 1..(n - 1) : w[i] = q[i + 1]
  BY <1>1
<1>4. 1 \in 1..n /\ \A i \in 1..(n - 1) : i + 1 \in 1..n /\ i + 1 # 1
  BY <1>2
<1> HIDE DEF w, n
<1>5. ASSUME NEW c2, \A r \in Pages!Askers : r # Head(q).by => c2[r].pc = c[r].pc PROVE SavesOk(w, s, v, c2)
  <2>1. ASSUME NEW i \in 1..(n - 1)
        PROVE  /\ w[i].version \in 1..v /\ w[i].events # <<>>
               /\ w[i].version = v => w[i].events[Len(w[i].events)] = s /\ s \in Pages!Stored
               /\ w[i].by # "plan" => c2[w[i].by].pc = "saving"
    <3>1. w[i] = q[i + 1] /\ i + 1 \in DOMAIN q
      BY <1>2, <1>3, <1>4
    <3>2. /\ w[i].version \in 1..v /\ w[i].events # <<>>
          /\ w[i].version = v => w[i].events[Len(w[i].events)] = s /\ s \in Pages!Stored
          /\ w[i].by # "plan" => c[w[i].by].pc = "saving"
      BY <3>1, Zenon DEF SavesOk
    <3>3. w[i].by # "plan" => w[i].by # Head(q).by
      BY <1>2, <1>4, <3>1 DEF SavesOk
    <3>4. w[i].by \in Pages!Askers \cup {"plan"}
      <4>1. w[i] \in SavingType
        BY <1>2
      <4> QED
        BY <4>1 DEF SavingType
    <3> QED
      BY <1>5, <3>2, <3>3, <3>4, Zenon
  <2>2. \A i, j \in 1..(n - 1) : w[i].by = w[j].by => i = j \/ w[i].by = "plan"
    <3> TAKE i, j \in 1..(n - 1)
    <3>1. w[i] = q[i + 1] /\ i + 1 \in DOMAIN q /\ w[j] = q[j + 1] /\ j + 1 \in DOMAIN q
      BY <1>2, <1>3, <1>4
    <3>2. w[i].by = w[j].by => i + 1 = j + 1 \/ w[i].by = "plan"
      BY <3>1, Zenon DEF SavesOk
    <3> QED
      BY <3>2
  <2> QED
    BY <1>2, <2>1, <2>2, Zenon DEF SavesOk
<1>6. /\ Head(q) \in SavingType
      /\ \A i \in DOMAIN q : i # 1 => i - 1 \in DOMAIN w /\ w[i - 1] = q[i]
  <2>1. q[1] \in SavingType
    BY <1>1, <1>2, <1>4
  <2>2. \A i \in 1..n : i # 1 => i - 1 \in 1..(n - 1) /\ (i - 1) + 1 = i
    BY <1>2
  <2> QED
    BY <1>2, <1>3, <2>1, <2>2
<1>7. /\ Head(q).version \in 1..v /\ Head(q).events # <<>>
      /\ Head(q).version = v => Head(q).events[Len(Head(q).events)] = s /\ s \in Pages!Stored
      /\ Head(q).by # "plan" => c[Head(q).by].pc = "saving"
  BY <1>2, <1>4, Zenon DEF SavesOk
<1> QED
  BY <1>5, <1>6, <1>7 DEF w

\* What is published is appended.
Published(events, v) == [i \in DOMAIN events |-> [status |-> events[i], version |-> v]]

\* The last of it is the status, or there is another to come.
EventsOk(events, x, s, v, c) ==
    /\ events \in Seq(Pages!Events) /\ events # <<>> /\ x \in Nat /\ x <= v
    /\ (x = v => Pages!Means(events[Len(events)]) = s) \/ RollsBack(c)

\* An inbox that a new event has been added to
Grown(q, w, x, s, v, c) ==
    /\ InboxOk(w, s, v, c)
    /\ \A i \in DOMAIN q : i \in DOMAIN w /\ w[i] = q[i]
    /\ \E i \in DOMAIN w : w[i].version = x

LEMMA InboxAppend ==
    ASSUME NEW q, NEW s, NEW v \in Nat, NEW c, InboxOk(q, s, v, c), NEW events, NEW x, EventsOk(events, x, s, v, c)
    PROVE  Grown(q, q \o Published(events, x), x, s, v, c)
<1> SUFFICES ASSUME NEW w, w = q \o Published(events, x)
             PROVE  /\ InboxOk(w, s, v, c)
                    /\ \A i \in DOMAIN q : i \in DOMAIN w /\ w[i] = q[i]
                    /\ \E i \in DOMAIN w : w[i].version = x
  BY DEF Grown
<1> DEFINE S == [status : Pages!Events, version : Nat]
           p == Published(events, x)
           n == Len(q)
           k == Len(events)
<1>0. w = q \o p
  OBVIOUS
<1>1. q \in Seq(S) /\ \A i \in DOMAIN q : q[i].version <= v
  BY DEF InboxOk
<1>2. /\ k \in Nat \ {0} /\ DOMAIN events = 1..k /\ \A i \in 1..k : events[i] \in Pages!Events
      /\ x \in Nat /\ x <= v
  BY DEF EventsOk
<1>3. p \in [1..k -> S] /\ \A i \in 1..k : p[i].status = events[i] /\ p[i].version = x
  BY <1>2 DEF Published
<1> HIDE DEF S, p, k
<1>4. p \in Seq(S) /\ Len(p) = k
  <2>1. p \in Seq(S)
    BY <1>2, <1>3, SeqDef
  <2> QED
    BY <1>2, <1>3, <2>1
<1>5. /\ n \in Nat /\ DOMAIN q = 1..n /\ w \in Seq(S) /\ DOMAIN w = 1..(n + k) /\ Len(w) = n + k
      /\ \A i \in 1..n : w[i] = q[i]
  <2>1. n \in Nat /\ DOMAIN q = 1..n
    BY <1>1
  <2>0. /\ q \o p \in Seq(S) /\ Len(q \o p) = Len(q) + Len(p)
        /\ \A i \in 1..(Len(q) + Len(p)) : (q \o p)[i] = IF i <= Len(q) THEN q[i] ELSE p[i - Len(q)]
    BY <1>1, <1>4, ConcatProperties, Zenon
  <2>2. /\ w \in Seq(S) /\ Len(w) = n + k
        /\ \A i \in 1..(n + k) : w[i] = IF i <= n THEN q[i] ELSE p[i - n]
    BY <1>0, <1>4, <2>0, Zenon
  <2>3. \A i \in 1..n : i \in 1..(n + k) /\ i <= n
    BY <1>2, <2>1
  <2>4. DOMAIN w = 1..(n + k)
    BY <1>2, <2>1, <2>2
  <2> QED
    BY <2>1, <2>2, <2>3, <2>4
<1>6. \A i \in (n + 1)..(n + k) : w[i] = p[i - n] /\ i - n \in 1..k
  BY <1>0, <1>1, <1>2, <1>4
<1> HIDE DEF n
<1>7. \A i \in 1..(n + k) : i \in 1..n \/ i \in (n + 1)..(n + k)
  BY <1>2, <1>5
<1>8. \A i \in 1..(n + k) : w[i].version <= v
  <2>1. \A i \in 1..n : w[i].version <= v
    BY <1>1, <1>5
  <2>2. \A i \in (n + 1)..(n + k) : w[i].version = x
    BY <1>3, <1>6, Zenon
  <2>3. x <= v
    BY <1>2
  <2> QED
    BY <1>7, <2>1, <2>2, <2>3, Zenon
<1>9. n + k \in (n + 1)..(n + k) /\ (n + k) - n = k /\ w # <<>>
  <2>1. n + k \in (n + 1)..(n + k) /\ (n + k) - n = k /\ n + k # 0
    BY <1>2, <1>5
  <2>2. Len(<<>>) = 0
    OBVIOUS
  <2> QED
    BY <1>5, <2>1, <2>2
<1>10. w[n + k].status = events[k] /\ w[n + k].version = x
  BY <1>3, <1>6, <1>9
<1>11. StatusRight(w[n + k], s, v) \/ RollsBack(c)
  BY <1>10 DEF StatusRight, k, EventsOk
<1>12. InboxOk(w, s, v, c)
  BY <1>5, <1>8, <1>11, Zenon DEF InboxOk, S
<1>13. \E i \in DOMAIN w : w[i].version = x
  <2>1. n + k \in 1..(n + k)
    BY <1>2, <1>5
  <2> QED
    BY <1>5, <1>10, <2>1
<1>14. \A i \in DOMAIN q : i \in DOMAIN w /\ w[i] = q[i]
  BY <1>2, <1>5
<1> QED
  BY <1>12, <1>13, <1>14

\* Whatever the status becomes, the page has been told or will be.
ToldSoFar(x, v2, sv) ==
    untold \in BOOLEAN /\ (~untold /\ x < v2 => Told(page, seen, asked, answers, inbox, sv, v2))

\* publish, to whoever has subscribed
LEMMA PublishTells ==
    ASSUME NEW events, NEW x, NEW s2, NEW v2 \in Nat, NEW c2, EventsOk(events, x, s2, v2, c2),
           edition \in Nat, page \in {"dashboard", "consumer"},
           Pages!Publish(events, x), v2 = edition \/ (v2 = edition + 1 /\ x = v2),
           InboxOk(inbox, s2, v2, c2), NEW sv, ToldSoFar(x, v2, sv)
    PROVE  /\ InboxOk(inbox', s2, v2, c2) /\ untold' \in BOOLEAN
           /\ ~untold' => Told(page, seen, asked, answers, inbox', sv, v2)
           /\ inbox # <<>> => inbox' # <<>>
<1>1. CASE socket # "live"
  <2>1. untold' = TRUE /\ inbox' = inbox
    BY <1>1, Zenon DEF Pages!Publish
  <2>2. untold' \in BOOLEAN /\ untold'
    BY <2>1, Zenon
  <2> QED
    BY <2>1, <2>2
<1>2. CASE socket = "live"
  <2>1. inbox' = inbox \o Published(events, x) /\ untold' = (untold /\ (page = "dashboard" \/ x < edition))
    BY <1>2, Zenon DEF Pages!Publish, Published
  <2>2. PICK w : w = inbox \o Published(events, x)
    OBVIOUS
  <2>9. Grown(inbox, inbox \o Published(events, x), x, s2, v2, c2)
    BY InboxAppend
  <2>3. /\ InboxOk(w, s2, v2, c2)
        /\ \A i \in DOMAIN inbox : i \in DOMAIN w /\ w[i] = inbox[i]
        /\ \E i \in DOMAIN w : w[i].version = x
    BY <2>2, <2>9, Zenon DEF Grown
  <2>4. inbox' = w
    BY <2>1, <2>2
  <2>5. ASSUME ~untold' PROVE Told(page, seen, asked, answers, w, sv, v2)
    <3>1. CASE x = v2 \/ page = "dashboard"
      BY <2>3, <3>1 DEF Told
    <3>2. CASE ~(x = v2 \/ page = "dashboard")
      <4>1. x < v2 /\ x < edition
        BY <3>2 DEF EventsOk
      <4>2. ~untold
        BY <2>1, <2>5, <4>1, Zenon
      <4>3. Told(page, seen, asked, answers, inbox, sv, v2)
        BY <4>1, <4>2, Zenon DEF ToldSoFar
      <4> QED
        BY <2>3, <4>3, Zenon DEF Told
    <3> QED
      BY <3>1, <3>2
  <2>6. inbox # <<>> => w # <<>>
    <3> DEFINE S == [status : Pages!Events, version : Nat]
    <3>1. inbox \in Seq(S)
      BY DEF InboxOk
    <3> HIDE DEF S
    <3>2. inbox # <<>> => 1 \in DOMAIN inbox
      BY <3>1
    <3>3. DOMAIN <<>> = {}
      OBVIOUS
    <3> QED
      BY <2>3, <3>2, <3>3, Zenon
  <2>7. untold' \in BOOLEAN
    BY <2>1, Zenon DEF ToldSoFar
  <2> QED
    BY <2>3, <2>4, <2>5, <2>6, <2>7
<1> QED
  BY <1>1, <1>2

\* Whom a request's step does not matter to
LEMMA PagesFrame ==
    ASSUME NEW s, NEW v, NEW c, NEW c2, RollsBack(c) => RollsBack(c2)
    PROVE  /\ \A q : InboxOk(q, s, v, c) => InboxOk(q, s, v, c2)
           /\ \A pg, sh, ib, so, ib2 : ShownOk(pg, sh, ib, so, s, v, c) /\ (ib # <<>> => ib2 # <<>>) =>
                 ShownOk(pg, sh, ib2, so, s, v, c2)
BY Zenon DEF InboxOk, ShownOk

LEMMA SavesFrame ==
    ASSUME NEW q, NEW s, NEW v, NEW c, SavesOk(q, s, v, c), NEW c2, NEW r,
           \A x \in Pages!Askers : x # r => c2[x].pc = c[x].pc, c[r].pc # "saving"
    PROVE  SavesOk(q, s, v, c2)
<1>1. ASSUME NEW i \in DOMAIN q, q[i].by # "plan" PROVE c2[q[i].by].pc = "saving"
  <2>1. q[i] \in SavingType
    <3>1. q \in Seq(SavingType)
      BY DEF SavesOk
    <3> QED
      BY <3>1
  <2>2. q[i].by \in Pages!Askers
    BY <1>1, <2>1 DEF SavingType
  <2>3. c[q[i].by].pc = "saving"
    BY <1>1, Zenon DEF SavesOk
  <2> QED
    BY <2>2, <2>3
<1> QED
  BY <1>1, Zenon DEF SavesOk

-----------------------------------------------------------------------------
\* What the server does, by the kind of step

\* The page's variables
PageView == <<page, shown, seen, asked, answers, socket, inbox, broken, untold>>

\* A request goes on, and nothing is set.
LEMMA PagesQuiet ==
    ASSUME PageInv, NEW r \in Pages!Askers, NEW k \in CommandType, command' = [command EXCEPT ![r] = k],
           k.version = command[r].version, command[r].pc \notin {"saving", "rollback"},
           k.pc = "begin" \/ k.reply = "ok" => edition >= 1,
           UNCHANGED <<reported, edition, planning, saving>>, UNCHANGED PageView, pageFaults' \in 0..2
    PROVE  PageInv'
<1>0. UNCHANGED <<page, shown, seen, asked, answers, socket, inbox, broken, untold>>
  BY DEF PageView
<1>1. /\ CommandsOk(command, reported, edition) /\ SavesOk(saving, reported, edition, command) /\ edition \in Nat
      /\ InboxOk(inbox, reported, edition, command)
      /\ ShownOk(page, shown, inbox, socket, reported, edition, command)
  BY DEF PageInv, ServerInv, ViewInv
<1>2. command' = [x \in Pages!Askers |-> command'[x]] /\ command'[r] = k /\ \A x \in Pages!Askers \ {r} : command'[x] = command[x]
  BY <1>1 DEF CommandsOk
<1>3. CommandsOk(command', reported, edition)
  <2>1. k.version <= edition /\ (k.version = edition /\ edition >= 1 => reported = "approved")
    BY <1>1 DEF CommandsOk
  <2> QED
    BY <1>1, <2>1, CommandsSet
<1>4. SavesOk(saving, reported, edition, command')
  BY <1>1, <1>2, SavesFrame
<1>5. RollsBack(command) => RollsBack(command')
  BY <1>2 DEF RollsBack
<1>6. InboxOk(inbox, reported, edition, command') /\ ShownOk(page, shown, inbox, socket, reported, edition, command')
  BY <1>1, <1>5, PagesFrame
<1>7. ServerInv'
  BY <1>0, <1>3, <1>4, Zenon DEF PageInv, ServerInv
<1>8. ViewInv'
  BY <1>0, <1>6, Zenon DEF PageInv, ViewInv
<1>9. ToldInv'
  BY <1>0, Zenon DEF PageInv, ToldInv
<1> QED
  BY <1>7, <1>8, <1>9 DEF PageInv

\* A status is set, and saved.
LEMMA PagesSet ==
    ASSUME PageInv, NEW s2 \in Pages!Stored, NEW e \in SavingType, e.version = edition + 1, e.events # <<>>,
           e.events[Len(e.events)] = s2, reported' = s2, edition' = edition + 1, planning' \in BOOLEAN,
           saving' = Append(saving, e), CommandsOk(command', s2, edition + 1),
           \A r \in Pages!Askers : r # e.by => command'[r].pc = command[r].pc,
           e.by # "plan" => command'[e.by].pc = "saving" /\ command[e.by].pc # "saving",
           UNCHANGED PageView, UNCHANGED pageFaults
    PROVE  PageInv'
<1>0. UNCHANGED <<page, shown, seen, asked, answers, socket, inbox, broken, untold>>
  BY DEF PageView
<1>1. /\ SavesOk(saving, reported, edition, command) /\ edition \in Nat
      /\ InboxOk(inbox, reported, edition, command) /\ AnswersOk(answers, reported, edition)
      /\ ShownOk(page, shown, inbox, socket, reported, edition, command) /\ seen \in 0..edition
  BY DEF PageInv, ServerInv, ViewInv
<1>2. PICK v2 : v2 = edition + 1
  OBVIOUS
<1>3. v2 \in Nat /\ v2 >= 1 /\ e.version \in 1..v2 /\ edition' = v2
  BY <1>1, <1>2
<1>4. SavesOk(saving, s2, v2, command)
  BY <1>1, <1>2, PagesBump
<1>5. SavesOk(Append(saving, e), s2, v2, command')
  BY <1>3, <1>4, SavesAppend
<1>6. /\ InboxOk(inbox, s2, v2, command') /\ AnswersOk(answers, s2, v2)
      /\ ShownOk(page, shown, inbox, socket, s2, v2, command')
  BY <1>1, <1>2, PagesBump
<1>7. \E i \in DOMAIN saving' : saving'[i].version = edition'
  <2>1. saving \in Seq(SavingType)
    BY <1>1 DEF SavesOk
  <2> HIDE DEF SavingType
  <2>2. Len(saving) + 1 \in DOMAIN Append(saving, e) /\ Append(saving, e)[Len(saving) + 1] = e
    BY <2>1
  <2> QED
    BY <1>2, <1>3, <2>2
<1>8. ServerInv'
  <2>1. CommandsOk(command', s2, v2)
    BY <1>2
  <2>2. page \in {"dashboard", "consumer"}
    BY Zenon DEF PageInv, ServerInv
  <2> QED
    BY <1>0, <1>3, <1>5, <2>1, <2>2, Zenon DEF ServerInv
<1>9. ViewInv'
  <2>1. seen \in 0..v2
    BY <1>1, <1>2
  <2> QED
    BY <1>0, <1>3, <1>6, <2>1, Zenon DEF PageInv, ViewInv
<1>10. ToldInv'
  BY <1>7, Zenon DEF ToldInv, Told
<1> QED
  BY <1>8, <1>9, <1>10 DEF PageInv

\* Something is published, with a status or without.
LEMMA PagesPublished ==
    ASSUME PageInv, NEW s2 \in Pages!Stored, NEW v2, NEW events, NEW x, reported' = s2, edition' = v2,
           (v2 = edition /\ s2 = reported) \/ (v2 = edition + 1 /\ x = v2),
           UNCHANGED planning, CommandsOk(command', s2, v2), SavesOk(saving', s2, v2, command'),
           v2 = edition /\ RollsBack(command) => RollsBack(command'),
           Pages!Publish(events, x), EventsOk(events, x, s2, v2, command'),
           \A i \in DOMAIN saving : saving[i].version = v2 /\ x < v2 => \E j \in DOMAIN saving' : saving'[j].version = v2,
           UNCHANGED <<page, shown, seen, asked, answers, socket, broken, pageFaults>>
    PROVE  PageInv'
<1>1. /\ edition \in Nat /\ page \in {"dashboard", "consumer"}
      /\ InboxOk(inbox, reported, edition, command) /\ AnswersOk(answers, reported, edition)
      /\ ShownOk(page, shown, inbox, socket, reported, edition, command) /\ seen \in 0..edition
  BY DEF PageInv, ServerInv, ViewInv
<1>2. v2 \in Nat /\ v2 >= edition
  BY <1>1
<1>3. InboxOk(inbox, s2, v2, command') /\ AnswersOk(answers, s2, v2)
  <2>1. CASE v2 = edition /\ s2 = reported
    BY <1>1, <2>1, PagesFrame
  <2>2. CASE v2 = edition + 1
    BY <1>1, <2>2, PagesBump
  <2> QED
    BY <2>1, <2>2
<1>4. x < v2 => v2 = edition
  BY <1>1 DEF EventsOk
<1>5. ToldSoFar(x, v2, saving')
  <2>1. ASSUME ~untold, x < v2 PROVE Told(page, seen, asked, answers, inbox, saving', v2)
    <3>1. Told(page, seen, asked, answers, inbox, saving, v2)
      BY <1>4, <2>1, Zenon DEF PageInv, ToldInv
    <3> QED
      BY <2>1, <3>1, Zenon DEF Told
  <2> QED
    BY <2>1, Zenon DEF PageInv, ViewInv, ToldSoFar
<1>6. /\ InboxOk(inbox', s2, v2, command') /\ untold' \in BOOLEAN
      /\ ~untold' => Told(page, seen, asked, answers, inbox', saving', v2)
      /\ inbox # <<>> => inbox' # <<>>
  <2>1. v2 = edition \/ (v2 = edition + 1 /\ x = v2)
    OBVIOUS
  <2> QED
    BY <1>1, <1>2, <1>3, <1>5, <2>1, PublishTells
<1>7. ShownOk(page, shown, inbox', socket, s2, v2, command')
  <2>1. CASE v2 = edition /\ s2 = reported
    BY <1>1, <1>6, <2>1, PagesFrame
  <2>2. CASE v2 = edition + 1
    BY <1>1, <2>2, PagesBump
  <2> QED
    BY <2>1, <2>2
<1>8. ServerInv'
  <2>1. ~planning => edition >= 1
    BY Zenon DEF PageInv, ServerInv
  <2>2. edition >= 1 => v2 >= 1
    BY <1>1, <1>2
  <2>3. planning \in BOOLEAN
    BY Zenon DEF PageInv, ServerInv
  <2> QED
    BY <1>1, <1>2, <2>1, <2>2, <2>3, Zenon DEF ServerInv
<1>9. ViewInv'
  <2>1. seen \in 0..v2
    BY <1>1, <1>2
  <2>2. asked \in 0..2 /\ socket \in {"none", "opening", "live", "lost"} /\ broken \in BOOLEAN /\ pageFaults \in 0..2
    BY Zenon DEF PageInv, ViewInv
  <2> QED
    BY <1>3, <1>6, <1>7, <2>1, <2>2, Zenon DEF ViewInv
<1>10. ToldInv'
  BY <1>6, Zenon DEF ToldInv
<1> QED
  BY <1>8, <1>9, <1>10 DEF PageInv

-----------------------------------------------------------------------------
\* The requests' records
Command(o, n, p, a) == [op |-> o, version |-> n, pc |-> p, reply |-> a]

LEMMA CommandFields ==
    ASSUME PageInv, NEW r \in Pages!Askers
    PROVE  /\ command = [x \in Pages!Askers |-> command[x]] /\ command[r] \in CommandType
           /\ \E o, n, p, a : command[r] = Command(o, n, p, a) /\ Command(o, n, p, a) \in CommandType
<1>1. command = [x \in Pages!Askers |-> command[x]] /\ command[r] \in CommandType
  BY DEF PageInv, ServerInv, CommandsOk
<1>2. \E o, n, p, a : command[r] = Command(o, n, p, a)
  BY <1>1 DEF CommandType, Command
<1> QED
  BY <1>1, <1>2, Zenon

LEMMA CommandGoes ==
    ASSUME PageInv, NEW r \in Pages!Askers, NEW p
    PROVE  /\ [command EXCEPT ![r].pc = p] = [command EXCEPT ![r] = [command[r] EXCEPT !.pc = p]]
           /\ p \in {"idle", "sent", "funds", "saving", "begin", "run", "rollback", "done"} =>
                 [command[r] EXCEPT !.pc = p] \in CommandType
           /\ [command[r] EXCEPT !.pc = p].pc = p
           /\ [command[r] EXCEPT !.pc = p].version = command[r].version
           /\ [command[r] EXCEPT !.pc = p].reply = command[r].reply
<1>1. PICK o, n, q, a : command[r] = Command(o, n, q, a) /\ Command(o, n, q, a) \in CommandType
  BY CommandFields
<1>2. [command[r] EXCEPT !.pc = p] = Command(o, n, p, a)
  BY <1>1 DEF Command
<1>3. [command EXCEPT ![r].pc = p] = [command EXCEPT ![r] = [command[r] EXCEPT !.pc = p]]
  BY Zenon
<1>4. p \in {"idle", "sent", "funds", "saving", "begin", "run", "rollback", "done"} => Command(o, n, p, a) \in CommandType
  BY <1>1 DEF Command, CommandType
<1>5. /\ Command(o, n, p, a).pc = p /\ Command(o, n, p, a).version = command[r].version
      /\ Command(o, n, p, a).reply = command[r].reply
  BY <1>1 DEF Command
<1> QED
  BY <1>2, <1>3, <1>4, <1>5, Zenon

LEMMA CommandReplies ==
    ASSUME PageInv, NEW r \in Pages!Askers, NEW p \in {"idle", "sent", "funds", "saving", "begin", "run", "rollback", "done"},
           NEW a \in {"none", "ok", "refused", "read"},
           \/ command' = [command EXCEPT ![r].pc = p, ![r].reply = a]
           \/ command' = [command EXCEPT ![r].reply = a, ![r].pc = p]
    PROVE  \E k \in CommandType : /\ command' = [command EXCEPT ![r] = k]
                                  /\ k.pc = p /\ k.reply = a /\ k.version = command[r].version
<1>1. PICK o, n, q, b : command[r] = Command(o, n, q, b) /\ Command(o, n, q, b) \in CommandType
  BY CommandFields
<1>2. command = [x \in Pages!Askers |-> command[x]]
  BY CommandFields
<1>3. PICK k : k = Command(o, n, p, a)
  OBVIOUS
<1>4. [command EXCEPT ![r].pc = p, ![r].reply = a] = [command EXCEPT ![r] = k]
  <2>1. PICK A : A = [command EXCEPT ![r] = Command(o, n, p, b)]
    OBVIOUS
  <2>2. [command[r] EXCEPT !.pc = p] = Command(o, n, p, b)
    BY <1>1 DEF Command
  <2>3. [command EXCEPT ![r].pc = p] = A
    BY <2>1, <2>2, Zenon
  <2>4. A[r] = Command(o, n, p, b)
    BY <1>2, <2>1
  <2>5. [A[r] EXCEPT !.reply = a] = k
    BY <1>3, <2>4 DEF Command
  <2>6. [A EXCEPT ![r].reply = a] = [A EXCEPT ![r] = k]
    BY <2>5, Zenon
  <2>7. [A EXCEPT ![r] = k] = [command EXCEPT ![r] = k]
    BY <1>2, <2>1
  <2>8. [command EXCEPT ![r].pc = p, ![r].reply = a] = [A EXCEPT ![r].reply = a]
    BY <2>3, Zenon
  <2> QED
    BY <2>6, <2>7, <2>8
<1>5. [command EXCEPT ![r].reply = a, ![r].pc = p] = [command EXCEPT ![r] = k]
  <2>1. PICK A : A = [command EXCEPT ![r] = Command(o, n, q, a)]
    OBVIOUS
  <2>2. [command[r] EXCEPT !.reply = a] = Command(o, n, q, a)
    BY <1>1 DEF Command
  <2>3. [command EXCEPT ![r].reply = a] = A
    BY <2>1, <2>2, Zenon
  <2>4. A[r] = Command(o, n, q, a)
    BY <1>2, <2>1
  <2>5. [A[r] EXCEPT !.pc = p] = k
    BY <1>3, <2>4 DEF Command
  <2>6. [A EXCEPT ![r].pc = p] = [A EXCEPT ![r] = k]
    BY <2>5, Zenon
  <2>7. [A EXCEPT ![r] = k] = [command EXCEPT ![r] = k]
    BY <1>2, <2>1
  <2>8. [command EXCEPT ![r].reply = a, ![r].pc = p] = [A EXCEPT ![r].pc = p]
    BY <2>3, Zenon
  <2> QED
    BY <2>6, <2>7, <2>8
<1>6. k.pc = p /\ k.reply = a /\ k.version = command[r].version
  BY <1>1, <1>3 DEF Command
<1>7. k \in CommandType
  BY <1>1, <1>3 DEF Command, CommandType
<1> QED
  BY <1>4, <1>5, <1>6, <1>7, Zenon

LEMMA CommandApproves ==
    ASSUME PageInv, NEW r \in Pages!Askers, NEW v \in Nat
    PROVE  \E k \in CommandType : /\ [command EXCEPT ![r].pc = "saving", ![r].version = v] = [command EXCEPT ![r] = k]
                                  /\ k.pc = "saving" /\ k.reply = command[r].reply /\ k.version = v
<1>1. PICK o, n, q, b : command[r] = Command(o, n, q, b) /\ Command(o, n, q, b) \in CommandType
  BY CommandFields
<1>2. command = [x \in Pages!Askers |-> command[x]]
  BY CommandFields
<1>3. PICK k : k = Command(o, v, "saving", b)
  OBVIOUS
<1>4. [command EXCEPT ![r].pc = "saving", ![r].version = v] = [command EXCEPT ![r] = k]
  <2>1. PICK A : A = [command EXCEPT ![r] = Command(o, n, "saving", b)]
    OBVIOUS
  <2>2. [command[r] EXCEPT !.pc = "saving"] = Command(o, n, "saving", b)
    BY <1>1 DEF Command
  <2>3. [command EXCEPT ![r].pc = "saving"] = A
    BY <2>1, <2>2, Zenon
  <2>4. A[r] = Command(o, n, "saving", b)
    BY <1>2, <2>1
  <2>5. [A[r] EXCEPT !.version = v] = k
    BY <1>3, <2>4 DEF Command
  <2>6. [A EXCEPT ![r].version = v] = [A EXCEPT ![r] = k]
    BY <2>5, Zenon
  <2>7. [A EXCEPT ![r] = k] = [command EXCEPT ![r] = k]
    BY <1>2, <2>1
  <2>8. [command EXCEPT ![r].pc = "saving", ![r].version = v] = [A EXCEPT ![r].version = v]
    BY <2>3, Zenon
  <2> QED
    BY <2>6, <2>7, <2>8
<1>6. k.pc = "saving" /\ k.reply = command[r].reply /\ k.version = v
  BY <1>1, <1>3 DEF Command
<1>7. k \in CommandType
  BY <1>1, <1>3 DEF Command, CommandType
<1> QED
  BY <1>4, <1>6, <1>7, Zenon

-----------------------------------------------------------------------------
\* The server's steps

LEMMA PagesPlan ==
    ASSUME PageInv, Pages!Plan PROVE PageInv'
<1>1. PICK s2, ev : /\ \/ s2 = "awaiting_approval" /\ ev = <<"plan_ready", "awaiting_approval">>
                       \/ s2 = "failed" /\ ev = <<"failed">>
                    /\ reported' = s2 /\ edition' = edition + 1
                    /\ saving' = Append(saving, [events |-> ev, version |-> edition + 1, by |-> "plan"])
  BY Zenon DEF Pages!Plan, Pages!Set
<1>2. PICK e : e = [events |-> ev, version |-> edition + 1, by |-> "plan"]
  OBVIOUS
<1>3. /\ planning' = FALSE /\ command' = command /\ pageFaults' = pageFaults
      /\ UNCHANGED <<page, shown, seen, asked, answers, socket, inbox, broken, untold>>
  BY DEF Pages!Plan, Pages!UnchangedView, Pages!Untold
<1>4. CommandsOk(command, reported, edition) /\ edition \in Nat
  BY DEF PageInv, ServerInv
<1>5. s2 \in Pages!Stored /\ ev \in Seq(Pages!Events) /\ ev # <<>> /\ ev[Len(ev)] = s2
  <2>1. s2 \in Pages!Stored
    BY <1>1 DEF Pages!Stored
  <2>2. CASE s2 = "awaiting_approval" /\ ev = <<"plan_ready", "awaiting_approval">>
    <3>1. ev \in Seq(Pages!Events) /\ ev # <<>> /\ ev[Len(ev)] = "awaiting_approval"
      BY <2>2 DEF Pages!Events, Pages!Stored
    <3> QED
      BY <2>1, <2>2, <3>1
  <2>3. CASE s2 = "failed" /\ ev = <<"failed">>
    <3>1. ev \in Seq(Pages!Events) /\ ev # <<>> /\ ev[Len(ev)] = "failed"
      BY <2>3 DEF Pages!Events, Pages!Stored
    <3> QED
      BY <2>1, <2>3, <3>1
  <2> QED
    BY <1>1, <2>2, <2>3
<1>6. /\ e \in SavingType /\ e.version = edition + 1 /\ e.events # <<>> /\ e.events[Len(e.events)] = s2
      /\ e.by = "plan"
  BY <1>2, <1>4, <1>5 DEF SavingType
<1>7. CommandsOk(command', s2, edition + 1)
  BY <1>3, <1>4, PagesBump
<1>8. UNCHANGED PageView
  BY <1>3 DEF PageView
<1>9. planning' \in BOOLEAN /\ saving' = Append(saving, e)
  BY <1>1, <1>2, <1>3
<1> QED
  BY <1>1, <1>3, <1>5, <1>6, <1>7, <1>8, <1>9, PagesSet

LEMMA PagesTake ==
    ASSUME PageInv, NEW r \in Pages!Askers, Pages!Take(r) PROVE PageInv'
<1>0. /\ command[r].pc = "sent" /\ planning' = planning /\ pageFaults' = pageFaults
      /\ UNCHANGED PageView
  BY DEF Pages!Take, Pages!At, Pages!UnchangedView, Pages!Untold, PageView
<1>1. /\ CommandsOk(command, reported, edition) /\ edition \in Nat /\ planning \in BOOLEAN /\ pageFaults \in 0..2
      /\ command = [x \in Pages!Askers |-> command[x]]
  BY CommandFields DEF PageInv, ServerInv, ViewInv
<1>2. CASE UNCHANGED <<reported, edition, saving>> /\ command' = [command EXCEPT ![r].pc = "funds"]
  <2>1. PICK k : k = [command[r] EXCEPT !.pc = "funds"]
    OBVIOUS
  <2>2. command' = [command EXCEPT ![r] = k] /\ k \in CommandType /\ k.pc = "funds" /\ k.version = command[r].version
        /\ k.reply = command[r].reply
    BY <1>2, <2>1, CommandGoes
  <2>3. k.pc = "begin" \/ k.reply = "ok" => edition >= 1
    BY <1>1, <2>2 DEF CommandsOk
  <2> QED
    BY <1>0, <1>1, <1>2, <2>2, <2>3, PagesQuiet
<1>3. CASE UNCHANGED <<reported, edition, saving>> /\ command' = [command EXCEPT ![r].pc = "done", ![r].reply = "refused"]
  <2>1. PICK k \in CommandType :
               /\ command' = [command EXCEPT ![r] = k]
               /\ k.pc = "done" /\ k.reply = "refused" /\ k.version = command[r].version
    BY <1>3, CommandReplies, Zenon
  <2> QED
    BY <1>0, <1>1, <1>3, <2>1, PagesQuiet
<1>4. CASE /\ Pages!Set("cancelled") /\ command' = [command EXCEPT ![r].pc = "saving"]
           /\ saving' = Append(saving, [events |-> <<"cancelled">>, version |-> edition', by |-> r])
  <2>1. reported' = "cancelled" /\ edition' = edition + 1
    BY <1>4 DEF Pages!Set
  <2>2. PICK e : e = [events |-> <<"cancelled">>, version |-> edition + 1, by |-> r]
    OBVIOUS
  <2>3. /\ e \in SavingType /\ e.version = edition + 1 /\ e.events # <<>> /\ e.events[Len(e.events)] = "cancelled"
        /\ e.by = r
    BY <1>1, <2>2 DEF SavingType, Pages!Events, Pages!Stored
  <2>4. PICK k : k = [command[r] EXCEPT !.pc = "saving"]
    OBVIOUS
  <2>5. command' = [command EXCEPT ![r] = k] /\ k \in CommandType /\ k.pc = "saving" /\ k.version = command[r].version
        /\ k.reply = command[r].reply
    BY <1>4, <2>4, CommandGoes
  <2>6. CommandsOk(command, "cancelled", edition + 1)
    BY <1>1, PagesBump
  <2>7. CommandsOk([command EXCEPT ![r] = k], "cancelled", edition + 1)
    <3>1. edition + 1 \in Nat /\ k.version <= edition + 1 /\ k.version # edition + 1 /\ (k.reply = "ok" => edition + 1 >= 1)
      BY <1>1, <2>5 DEF CommandsOk, CommandType
    <3>2. k.pc = "begin" \/ k.reply = "ok" => edition + 1 >= 1
      BY <2>5, <3>1
    <3>3. k.version = edition + 1 /\ edition + 1 >= 1 => "cancelled" = "approved"
      BY <3>1
    <3> QED
      BY <2>5, <2>6, <3>1, <3>2, <3>3, CommandsSet
  <2>8. command'[r] = k /\ \A x \in Pages!Askers : x # r => command'[x].pc = command[x].pc
    BY <1>1, <2>5
  <2>9. "cancelled" \in Pages!Stored
    BY DEF Pages!Stored
  <2>10. saving' = Append(saving, e) /\ planning' \in BOOLEAN
    BY <1>0, <1>1, <1>4, <2>1, <2>2
  <2>11. CommandsOk(command', "cancelled", edition + 1)
    BY <2>5, <2>7
  <2>12. /\ \A x \in Pages!Askers : x # e.by => command'[x].pc = command[x].pc
         /\ command'[e.by].pc = "saving" /\ command[e.by].pc # "saving"
    BY <1>0, <2>3, <2>5, <2>8
  <2> QED
    BY <1>0, <2>1, <2>3, <2>9, <2>10, <2>11, <2>12, PagesSet
<1> QED
  BY <1>2, <1>3, <1>4, Zenon DEF Pages!Take, Pages!Goto

LEMMA PagesFunds ==
    ASSUME PageInv, NEW r \in Pages!Askers, Pages!Funds(r) PROVE PageInv'
<1>0. /\ command[r].pc = "funds" /\ planning' = planning /\ pageFaults' = pageFaults
      /\ UNCHANGED PageView
  BY DEF Pages!Funds, Pages!At, Pages!UnchangedView, Pages!Untold, PageView
<1>1. /\ CommandsOk(command, reported, edition) /\ edition \in Nat /\ planning \in BOOLEAN /\ pageFaults \in 0..2
      /\ command = [x \in Pages!Askers |-> command[x]]
  BY CommandFields DEF PageInv, ServerInv, ViewInv
<1>3. CASE UNCHANGED <<reported, edition, saving>> /\ command' = [command EXCEPT ![r].pc = "done", ![r].reply = "refused"]
  <2>1. PICK k \in CommandType :
               /\ command' = [command EXCEPT ![r] = k]
               /\ k.pc = "done" /\ k.reply = "refused" /\ k.version = command[r].version
    BY <1>3, CommandReplies, Zenon
  <2> QED
    BY <1>0, <1>1, <1>3, <2>1, PagesQuiet
<1>4. CASE /\ Pages!Set("approved") /\ command' = [command EXCEPT ![r].pc = "saving", ![r].version = edition']
           /\ saving' = Append(saving, [events |-> <<"approved">>, version |-> edition', by |-> r])
  <2>1. reported' = "approved" /\ edition' = edition + 1
    BY <1>4 DEF Pages!Set
  <2>2. PICK e : e = [events |-> <<"approved">>, version |-> edition + 1, by |-> r]
    OBVIOUS
  <2>3. /\ e \in SavingType /\ e.version = edition + 1 /\ e.events # <<>> /\ e.events[Len(e.events)] = "approved"
        /\ e.by = r
    BY <1>1, <2>2 DEF SavingType, Pages!Events, Pages!Stored
  <2>4. edition + 1 \in Nat
    BY <1>1
  <2>5. PICK k \in CommandType : /\ [command EXCEPT ![r].pc = "saving", ![r].version = edition + 1] = [command EXCEPT ![r] = k]
                                 /\ k.pc = "saving" /\ k.reply = command[r].reply /\ k.version = edition + 1
    BY <2>4, CommandApproves
  <2>13. command' = [command EXCEPT ![r] = k]
    BY <1>4, <2>1, <2>5
  <2>6. CommandsOk(command, "approved", edition + 1)
    BY <1>1, PagesBump
  <2>7. CommandsOk([command EXCEPT ![r] = k], "approved", edition + 1)
    <3>1. k.version <= edition + 1 /\ edition + 1 >= 1
      BY <1>1, <2>5
    <3> QED
      BY <2>4, <2>5, <2>6, <3>1, CommandsSet
  <2>8. command'[r] = k /\ \A x \in Pages!Askers : x # r => command'[x].pc = command[x].pc
    BY <1>1, <2>13
  <2>9. "approved" \in Pages!Stored
    BY DEF Pages!Stored
  <2>10. saving' = Append(saving, e) /\ planning' \in BOOLEAN
    BY <1>0, <1>1, <1>4, <2>1, <2>2
  <2>11. CommandsOk(command', "approved", edition + 1)
    BY <2>13, <2>7
  <2>12. /\ \A x \in Pages!Askers : x # e.by => command'[x].pc = command[x].pc
         /\ command'[e.by].pc = "saving" /\ command[e.by].pc # "saving"
    BY <1>0, <2>3, <2>5, <2>8
  <2> QED
    BY <1>0, <2>1, <2>3, <2>9, <2>10, <2>11, <2>12, PagesSet
<1> QED
  BY <1>3, <1>4, Zenon DEF Pages!Funds, Pages!Goto

LEMMA PagesSaved ==
    ASSUME PageInv, Pages!Saved PROVE PageInv'
<1>0. /\ saving # <<>> /\ saving' = Tail(saving) /\ Pages!Publish(Head(saving).events, Head(saving).version)
      /\ UNCHANGED <<reported, edition, planning>>
      /\ UNCHANGED <<page, shown, seen, asked, answers, socket, broken, pageFaults>>
  BY DEF Pages!Saved, Pages!UnchangedView
<1>1. /\ CommandsOk(command, reported, edition) /\ edition \in Nat /\ reported \in Pages!Stored
      /\ SavesOk(saving, reported, edition, command)
      /\ command = [x \in Pages!Askers |-> command[x]]
  BY DEF PageInv, ServerInv, CommandsOk
<1>2. PICK e : e = Head(saving)
  OBVIOUS
<1>3. /\ e \in SavingType /\ e.version \in 1..edition /\ e.events # <<>>
      /\ e.version = edition => e.events[Len(e.events)] = reported
      /\ e.by # "plan" => command[e.by].pc = "saving"
      /\ \A c2 : (\A r \in Pages!Askers : r # e.by => c2[r].pc = command[r].pc) => SavesOk(Tail(saving), reported, edition, c2)
      /\ \A i \in DOMAIN saving : i # 1 => i - 1 \in DOMAIN Tail(saving) /\ Tail(saving)[i - 1] = saving[i]
  BY <1>0, <1>1, <1>2, SavesTail
<1>4. e.events \in Seq(Pages!Events) /\ e.by \in Pages!Askers \cup {"plan"}
  BY <1>3 DEF SavingType
<1>5. edition >= 1 /\ e.version \in Nat /\ e.version <= edition
  BY <1>1, <1>3
<1>6. EventsOk(e.events, e.version, reported, edition, command')
  <2>1. Pages!Means(reported) = reported
    BY <1>1 DEF Pages!Means, Pages!Stored
  <2> QED
    BY <1>3, <1>4, <1>5, <2>1 DEF EventsOk
<1>7. \A i \in DOMAIN saving : saving[i].version = edition /\ e.version < edition =>
         \E j \in DOMAIN saving' : saving'[j].version = edition
  <2>1. ASSUME NEW i \in DOMAIN saving, saving[i].version = edition, e.version < edition
        PROVE  \E j \in DOMAIN saving' : saving'[j].version = edition
    <3>1. i # 1
      <4>1. saving \in Seq(SavingType)
        BY <1>1 DEF SavesOk
      <4> HIDE DEF SavingType
      <4>2. e = saving[1]
        BY <1>0, <1>2, <4>1
      <4> QED
        BY <1>5, <2>1, <4>2
    <3>2. i - 1 \in DOMAIN saving' /\ saving'[i - 1] = saving[i]
      BY <1>0, <1>3, <2>1, <3>1, Zenon
    <3> QED
      BY <2>1, <3>2, Zenon
  <2> QED
    BY <2>1
<1>8. /\ CommandsOk(command', reported, edition)
      /\ RollsBack(command) => RollsBack(command')
      /\ \A r \in Pages!Askers : r # e.by => command'[r].pc = command[r].pc
  <2>1. CASE e.by = "plan"
    <3>1. command' = command
      BY <1>2, <2>1 DEF Pages!Saved
    <3> QED
      BY <1>1, <3>1
  <2>2. CASE e.by # "plan"
    <3>1. PICK r \in Pages!Askers : r = e.by
      BY <1>4, <2>2
    <3>2. PICK p \in {"begin", "done"} : p = IF command[r].pc = "saving" /\ command[r].op = "approve" THEN "begin" ELSE "done"
      OBVIOUS
    <3>3. command' = [command EXCEPT ![r].reply = "ok", ![r].pc = p]
      <4>1. command' = [command EXCEPT ![r].reply = "ok",
                                       ![r].pc = IF @ = "saving" /\ command[r].op = "approve"
                                                 THEN "begin" ELSE "done"]
        BY <1>2, <2>2, <3>1 DEF Pages!Saved
      <4>2. command[r].pc = [command EXCEPT ![r].reply = "ok"][r].pc
        <5>1. command[r] \in CommandType
          BY CommandFields
        <5> QED
          BY <1>1, <5>1 DEF CommandType
      <4> QED
        BY <3>2, <4>1, <4>2
    <3>4. PICK k \in CommandType : /\ command' = [command EXCEPT ![r] = k]
                                   /\ k.pc = p /\ k.reply = "ok" /\ k.version = command[r].version
      <4>1. CASE p = "begin"
        <5>1. command' = [command EXCEPT ![r].reply = "ok", ![r].pc = "begin"]
          BY <3>3, <4>1
        <5>2. \E k \in CommandType : /\ command' = [command EXCEPT ![r] = k]
                                     /\ k.pc = "begin" /\ k.reply = "ok" /\ k.version = command[r].version
          BY <5>1, CommandReplies, Zenon
        <5> QED
          BY <4>1, <5>2
      <4>2. CASE p = "done"
        <5>1. command' = [command EXCEPT ![r].reply = "ok", ![r].pc = "done"]
          BY <3>3, <4>2
        <5>2. \E k \in CommandType : /\ command' = [command EXCEPT ![r] = k]
                                     /\ k.pc = "done" /\ k.reply = "ok" /\ k.version = command[r].version
          BY <5>1, CommandReplies, Zenon
        <5> QED
          BY <4>2, <5>2
      <4> QED
        BY <4>1, <4>2
    <3>5. command'[r] = k /\ \A x \in Pages!Askers \ {r} : command'[x] = command[x]
      BY <1>1, <3>4
    <3>6. CommandsOk(command', reported, edition)
      <4>1. k.version <= edition /\ (k.version = edition /\ edition >= 1 => reported = "approved")
        BY <1>1, <3>4 DEF CommandsOk
      <4>2. CommandsOk([command EXCEPT ![r] = k], reported, edition)
        BY <1>1, <1>5, <4>1, CommandsSet
      <4> QED
        BY <3>4, <4>2
    <3>7. command[r].pc = "saving"
      BY <1>3, <2>2, <3>1
    <3> QED
      BY <3>1, <3>5, <3>6, <3>7 DEF RollsBack
  <2> QED
    BY <2>1, <2>2
<1>9. SavesOk(saving', reported, edition, command')
  BY <1>0, <1>3, <1>8
<1>10. Pages!Publish(e.events, e.version)
  BY <1>0, <1>2
<1>11. /\ reported' = reported /\ edition' = edition /\ planning' = planning
       /\ UNCHANGED <<page, shown, seen, asked, answers, socket, broken, pageFaults>>
  BY <1>0
<1>12. PICK ev, x : ev = e.events /\ x = e.version
  OBVIOUS
<1>13. /\ EventsOk(ev, x, reported, edition, command') /\ Pages!Publish(ev, x)
       /\ \A i \in DOMAIN saving : saving[i].version = edition /\ x < edition =>
             \E j \in DOMAIN saving' : saving'[j].version = edition
  BY <1>6, <1>7, <1>10, <1>12
<1>14. reported \in Pages!Stored /\ CommandsOk(command', reported, edition) /\ (RollsBack(command) => RollsBack(command'))
  BY <1>1, <1>8
<1> QED
  BY <1>9, <1>11, <1>13, <1>14, PagesPublished

\* A request that is not being saved goes on to a step that is not the beginning.
LEMMA PagesGoes ==
    ASSUME PageInv, NEW r \in Pages!Askers, NEW p \in {"idle", "sent", "funds", "run", "rollback", "done"},
           command' = [command EXCEPT ![r].pc = p], command[r].pc # "saving"
    PROVE  /\ CommandsOk(command', reported, edition) /\ SavesOk(saving, reported, edition, command')
           /\ \A s2 : CommandsOk(command', s2, edition + 1) /\ SavesOk(saving, s2, edition + 1, command')
           /\ command'[r].pc = p /\ \A x \in Pages!Askers \ {r} : command'[x] = command[x]
<1>1. /\ CommandsOk(command, reported, edition) /\ edition \in Nat /\ SavesOk(saving, reported, edition, command)
      /\ command = [x \in Pages!Askers |-> command[x]]
  BY CommandFields DEF PageInv, ServerInv
<1>2. PICK k : k = [command[r] EXCEPT !.pc = p]
  OBVIOUS
<1>3. command' = [command EXCEPT ![r] = k] /\ k \in CommandType /\ k.pc = p /\ k.version = command[r].version
      /\ k.reply = command[r].reply
  BY <1>2, CommandGoes
<1>4. command'[r] = k /\ \A x \in Pages!Askers \ {r} : command'[x] = command[x]
  BY <1>1, <1>3
<1>5. CommandsOk(command', reported, edition)
  <2>1. k.version <= edition /\ (k.version = edition /\ edition >= 1 => reported = "approved")
        /\ (k.pc = "begin" \/ k.reply = "ok" => edition >= 1)
    BY <1>1, <1>3 DEF CommandsOk
  <2>2. CommandsOk([command EXCEPT ![r] = k], reported, edition)
    BY <1>1, <1>3, <2>1, CommandsSet
  <2> QED
    BY <1>3, <2>2
<1>6. SavesOk(saving, reported, edition, command')
  BY <1>1, <1>4, SavesFrame
<1>7. ASSUME NEW s2 PROVE CommandsOk(command', s2, edition + 1) /\ SavesOk(saving, s2, edition + 1, command')
  BY <1>1, <1>5, <1>6, PagesBump
<1> QED
  BY <1>3, <1>4, <1>5, <1>6, <1>7

LEMMA PagesBeginRun ==
    ASSUME PageInv, NEW r \in Pages!Askers, Pages!BeginRun(r) PROVE PageInv'
<1>0. /\ command[r].pc = "begin" /\ command' = [command EXCEPT ![r].pc = "run"]
      /\ Pages!Publish(<<"executing">>, command[r].version)
      /\ UNCHANGED <<reported, edition, planning, saving>>
      /\ UNCHANGED <<page, shown, seen, asked, answers, socket, broken, pageFaults>>
  BY DEF Pages!BeginRun, Pages!At, Pages!Goto, Pages!UnchangedView
<1>1. /\ CommandsOk(command', reported, edition) /\ SavesOk(saving, reported, edition, command')
      /\ command'[r].pc = "run" /\ \A x \in Pages!Askers \ {r} : command'[x] = command[x]
  BY <1>0, PagesGoes
<1>2. reported \in Pages!Stored
  BY DEF PageInv, ServerInv
<1>3. EventsOk(<<"executing">>, command[r].version, reported, edition, command')
  <2>1. /\ command[r].version \in Nat /\ command[r].version <= edition
        /\ command[r].version = edition => reported = "approved"
    BY <1>0 DEF PageInv, ServerInv, CommandsOk, CommandType
  <2>2. <<"executing">> \in Seq(Pages!Events) /\ <<"executing">> # <<>> /\ <<"executing">>[Len(<<"executing">>)] = "executing"
    BY DEF Pages!Events
  <2>3. Pages!Means("executing") = "approved"
    BY DEF Pages!Means
  <2> QED
    BY <2>1, <2>2, <2>3 DEF EventsOk
<1>4. RollsBack(command) => RollsBack(command')
  BY <1>0, <1>1 DEF RollsBack
<1>5. SavesOk(saving', reported, edition, command')
  BY <1>0, <1>1
<1>6. \A i \in DOMAIN saving : saving[i].version = edition /\ command[r].version < edition =>
         \E j \in DOMAIN saving' : saving'[j].version = edition
  BY <1>0
<1> QED
  BY <1>0, <1>1, <1>2, <1>3, <1>4, <1>5, <1>6, PagesPublished

LEMMA PagesEndRun ==
    ASSUME PageInv, NEW r \in Pages!Askers, Pages!EndRun(r) PROVE PageInv'
<1>0. /\ command[r].pc = "run" /\ UNCHANGED <<planning, saving>>
      /\ UNCHANGED <<page, shown, seen, asked, answers, socket, broken, pageFaults>>
      /\ edition \in Nat /\ reported \in Pages!Stored
  BY DEF Pages!EndRun, Pages!At, Pages!UnchangedView, PageInv, ServerInv
<1>1. CASE Pages!Goto(r, "done") /\ Pages!Set("completed") /\ Pages!Publish(<<"completed">>, edition')
  <2>1. /\ command' = [command EXCEPT ![r].pc = "done"] /\ reported' = "completed" /\ edition' = edition + 1
        /\ Pages!Publish(<<"completed">>, edition + 1)
    BY <1>1 DEF Pages!Goto, Pages!Set
  <2>2. CommandsOk(command', "completed", edition + 1) /\ SavesOk(saving, "completed", edition + 1, command')
    BY <1>0, <2>1, PagesGoes
  <2>3. EventsOk(<<"completed">>, edition + 1, "completed", edition + 1, command')
    BY <1>0 DEF EventsOk, Pages!Events, Pages!Stored, Pages!Means
  <2>4. "completed" \in Pages!Stored /\ edition + 1 # edition /\ ~(edition + 1 < edition + 1)
    BY <1>0 DEF Pages!Stored
  <2>5. SavesOk(saving', "completed", edition + 1, command')
    BY <1>0, <2>2
  <2> QED
    BY <1>0, <2>1, <2>2, <2>3, <2>4, <2>5, PagesPublished
<1>2. CASE /\ Pages!Goto(r, "rollback") /\ Pages!Publish(<<"failed", "rolling_back">>, edition)
           /\ UNCHANGED <<reported, edition>>
  <2>1. command' = [command EXCEPT ![r].pc = "rollback"]
    BY <1>2 DEF Pages!Goto
  <2>2. /\ CommandsOk(command', reported, edition) /\ SavesOk(saving, reported, edition, command')
        /\ command'[r].pc = "rollback"
    BY <1>0, <2>1, PagesGoes
  <2>3. RollsBack(command')
    BY <2>2 DEF RollsBack
  <2>4. EventsOk(<<"failed", "rolling_back">>, edition, reported, edition, command')
    BY <1>0, <2>3 DEF EventsOk, Pages!Events, Pages!Stored
  <2>5. SavesOk(saving', reported, edition, command') /\ ~(edition < edition)
    BY <1>0, <2>2
  <2> QED
    BY <1>0, <1>2, <2>2, <2>3, <2>4, <2>5, PagesPublished
<1> QED
  BY <1>1, <1>2, Zenon DEF Pages!EndRun

LEMMA PagesEndRollback ==
    ASSUME PageInv, NEW r \in Pages!Askers, Pages!EndRollback(r) PROVE PageInv'
<1>0. /\ command[r].pc = "rollback" /\ UNCHANGED <<planning, saving>>
      /\ UNCHANGED <<page, shown, seen, asked, answers, socket, broken, pageFaults>>
      /\ edition \in Nat
  BY DEF Pages!EndRollback, Pages!At, Pages!UnchangedView, PageInv, ServerInv
<1>1. /\ command' = [command EXCEPT ![r].pc = "done"] /\ reported' = "failed" /\ edition' = edition + 1
      /\ Pages!Publish(<<"rolled_back">>, edition + 1)
  BY DEF Pages!EndRollback, Pages!Goto, Pages!Set
<1>2. CommandsOk(command', "failed", edition + 1) /\ SavesOk(saving, "failed", edition + 1, command')
  BY <1>0, <1>1, PagesGoes
<1>3. EventsOk(<<"rolled_back">>, edition + 1, "failed", edition + 1, command')
  BY <1>0 DEF EventsOk, Pages!Events, Pages!Stored, Pages!Means
<1>4. "failed" \in Pages!Stored /\ edition + 1 # edition /\ ~(edition + 1 < edition + 1)
  BY <1>0 DEF Pages!Stored
<1>5. SavesOk(saving', "failed", edition + 1, command')
  BY <1>0, <1>2
<1> QED
  BY <1>0, <1>1, <1>2, <1>3, <1>4, <1>5, PagesPublished

\* A step that may fail is counted.
LEMMA PagesFault ==
    ASSUME PageInv, Pages!MayAsk PROVE pageFaults + 1 \in 0..2
<1> DEFINE S == {r \in Pages!Askers : ~Pages!At(r, "idle")}
<1>1. IsFiniteSet(S)
  <2>1. IsFiniteSet({"approve", "cancel", "other"})
    <3>1. {"approve", "cancel", "other"} = ({"approve"} \cup {"cancel"}) \cup {"other"}
      OBVIOUS
    <3>2. IsFiniteSet({"approve"}) /\ IsFiniteSet({"cancel"}) /\ IsFiniteSet({"other"})
      BY FS_Singleton
    <3>3. IsFiniteSet({"approve"} \cup {"cancel"})
      BY <3>2, FS_Union
    <3>4. IsFiniteSet(({"approve"} \cup {"cancel"}) \cup {"other"})
      BY <3>2, <3>3, FS_Union
    <3> QED
      BY <3>1, <3>4
  <2>2. S \subseteq {"approve", "cancel", "other"}
    BY DEF Pages!Askers, Pages!Buttons
  <2> QED
    BY <2>1, <2>2, FS_Subset
<1>2. Cardinality(S) \in Nat
  BY <1>1, FS_CardinalityType
<1>3. pageFaults + Cardinality(S) < 2 /\ pageFaults \in 0..2
  <2>1. pageFaults + Pages!Cardinality(S) < 2
    BY DEF Pages!MayAsk
  <2>2. Pages!Cardinality(S) = Cardinality(S)
    BY DEF Pages!Cardinality, Cardinality
  <2> QED
    BY <2>1, <2>2 DEF PageInv, ViewInv
<1> HIDE DEF S
<1> QED
  BY <1>2, <1>3

LEMMA PagesRunThrows ==
    ASSUME PageInv, NEW r \in Pages!Askers, Pages!RunThrows(r) PROVE PageInv'
<1>0. /\ command[r].pc # "saving" /\ command' = [command EXCEPT ![r].pc = "done"]
      /\ reported' = "failed" /\ edition' = edition + 1 /\ untold' = TRUE
      /\ UNCHANGED <<page, planning, saving, shown, seen, asked, answers, socket, inbox, broken>>
      /\ pageFaults' \in 0..2
  <2>1. Pages!MayAsk /\ pageFaults' = pageFaults + 1
    BY DEF Pages!RunThrows, Pages!Fault
  <2>2. pageFaults' \in 0..2
    BY <2>1, PagesFault
  <2> QED
    BY <2>2 DEF Pages!RunThrows, Pages!At, Pages!Goto, Pages!Set, Pages!viewVars
<1>1. /\ edition \in Nat /\ planning \in BOOLEAN /\ page \in {"dashboard", "consumer"}
      /\ InboxOk(inbox, reported, edition, command) /\ AnswersOk(answers, reported, edition)
      /\ ShownOk(page, shown, inbox, socket, reported, edition, command) /\ seen \in 0..edition
      /\ asked \in 0..2 /\ socket \in {"none", "opening", "live", "lost"} /\ broken \in BOOLEAN
  BY DEF PageInv, ServerInv, ViewInv
<1>2. PICK v2 : v2 = edition + 1
  OBVIOUS
<1>3. v2 \in Nat /\ v2 >= 1 /\ seen \in 0..v2 /\ edition' = v2
  BY <1>0, <1>1, <1>2
<1>4. CommandsOk(command', "failed", v2) /\ SavesOk(saving, "failed", v2, command')
  BY <1>0, <1>2, PagesGoes
<1>5. /\ InboxOk(inbox, "failed", v2, command') /\ AnswersOk(answers, "failed", v2)
      /\ ShownOk(page, shown, inbox, socket, "failed", v2, command')
  BY <1>1, <1>2, PagesBump
<1>6. ServerInv'
  <2>1. "failed" \in Pages!Stored
    BY DEF Pages!Stored
  <2> QED
    BY <1>0, <1>1, <1>3, <1>4, <2>1, Zenon DEF ServerInv
<1>7. ViewInv'
  <2>1. untold' \in BOOLEAN
    BY <1>0, Zenon
  <2> QED
    BY <1>0, <1>1, <1>3, <1>5, <2>1, Zenon DEF ViewInv
<1>8. ToldInv'
  BY <1>0, Zenon DEF ToldInv
<1> QED
  BY <1>6, <1>7, <1>8 DEF PageInv

\* A request is made, by the page or by another.
LEMMA PagesAsks ==
    ASSUME PageInv, NEW r \in Pages!Askers, Pages!At(r, "idle"), Pages!Goto(r, "sent"),
           UNCHANGED <<reported, edition, planning, saving>>, Pages!UnchangedView, Pages!Untold
    PROVE  PageInv'
<1>1. command[r].pc = "idle" /\ command' = [command EXCEPT ![r].pc = "sent"]
  BY DEF Pages!At, Pages!Goto
<1>2. UNCHANGED PageView /\ pageFaults' \in 0..2
  BY DEF Pages!UnchangedView, Pages!Untold, PageView, PageInv, ViewInv
<1>3. PICK k : k = [command[r] EXCEPT !.pc = "sent"]
  OBVIOUS
<1>4. command' = [command EXCEPT ![r] = k] /\ k \in CommandType /\ k.pc = "sent" /\ k.version = command[r].version
      /\ k.reply = command[r].reply
  BY <1>1, <1>3, CommandGoes
<1>5. k.pc = "begin" \/ k.reply = "ok" => edition >= 1
  BY <1>4 DEF PageInv, ServerInv, CommandsOk
<1> QED
  BY <1>1, <1>2, <1>4, <1>5, PagesQuiet

-----------------------------------------------------------------------------
\* The page's steps

\* The server stays as it is.
LEMMA PagesViewed ==
    ASSUME PageInv, UNCHANGED <<page, reported, edition, planning, command, saving>>, ViewInv', ToldInv'
    PROVE  PageInv'
BY Zenon DEF PageInv, ServerInv

LEMMA PagesAnswerFetch ==
    ASSUME PageInv, Pages!AnswerFetch PROVE PageInv'
<1>0. /\ asked > 0 /\ asked' = asked - 1 /\ answers' = Append(answers, [status |-> reported, version |-> edition])
      /\ untold' = FALSE
      /\ UNCHANGED <<page, reported, edition, planning, command, saving>>
      /\ UNCHANGED <<shown, seen, socket, inbox, broken, pageFaults>>
  BY DEF Pages!AnswerFetch, Pages!serverVars
<1>1. /\ edition \in Nat /\ reported \in Pages!Stored /\ asked \in 0..2
      /\ AnswersOk(answers, reported, edition)
  BY DEF PageInv, ServerInv, ViewInv
<1> DEFINE S == [status : Pages!Stored, version : Nat]
           w == Append(answers, [status |-> reported, version |-> edition])
           n == Len(answers)
<1>2. answers \in Seq(S) /\ [status |-> reported, version |-> edition] \in S
  BY <1>1 DEF AnswersOk
<1>3. n \in Nat /\ w \in Seq(S) /\ DOMAIN w = 1..(n + 1) /\ DOMAIN answers = 1..n
      /\ w[n + 1] = [status |-> reported, version |-> edition] /\ \A i \in 1..n : w[i] = answers[i]
  <2> HIDE DEF S
  <2> QED
    BY <1>2
<1>4. w[n + 1].version = edition /\ w[n + 1].status = reported /\ n + 1 \in 1..(n + 1)
      /\ \A i \in 1..(n + 1) : i \in 1..n \/ i = n + 1
  BY <1>3
<1> HIDE DEF w, n
<1>5. AnswersOk(w, reported, edition)
  <2>1. edition <= edition
    BY <1>1
  <2>2. \A i \in 1..n : answers[i].version <= edition /\ (answers[i].version = edition => answers[i].status = reported)
    BY <1>1, <1>3, Zenon DEF AnswersOk
  <2>3. \A i \in 1..(n + 1) : w[i].version <= edition /\ (w[i].version = edition => w[i].status = reported)
    BY <1>3, <1>4, <2>1, <2>2, Zenon
  <2> QED
    BY <1>3, <2>3, Zenon DEF AnswersOk
<1>6. ViewInv'
  <2>1. asked' \in 0..2
    BY <1>0, <1>1
  <2>2. untold' \in BOOLEAN
    BY <1>0, Zenon
  <2>3. AnswersOk(answers', reported, edition)
    BY <1>0, <1>5 DEF w
  <2> QED
    BY <1>0, <2>1, <2>2, <2>3, Zenon DEF PageInv, ViewInv
<1>7. ToldInv'
  <2>1. \E i \in DOMAIN answers' : answers'[i].version = edition'
    <3>1. answers' = w /\ edition' = edition
      BY <1>0 DEF w
    <3> QED
      BY <1>3, <1>4, <3>1, Zenon
  <2> QED
    BY <2>1, Zenon DEF ToldInv, Told
<1> QED
  BY <1>0, <1>6, <1>7, PagesViewed

LEMMA PagesFetchFails ==
    ASSUME PageInv, Pages!FetchFails PROVE PageInv'
<1>0. /\ asked > 0 /\ asked' = asked - 1 /\ untold' = TRUE
      /\ UNCHANGED <<page, reported, edition, planning, command, saving>>
      /\ UNCHANGED <<shown, seen, answers, socket, inbox>>
      /\ Pages!MayAsk /\ pageFaults' = pageFaults + 1
  BY DEF Pages!FetchFails, Pages!serverVars, Pages!Fault
<1>1. broken' \in BOOLEAN
  <2>1. broken' = (broken \/ shown = Pages!NothingShown) /\ broken \in BOOLEAN
    BY DEF Pages!FetchFails, PageInv, ViewInv
  <2> QED
    BY <2>1, Zenon
<1>2. pageFaults' \in 0..2
  BY <1>0, PagesFault
<1>3. ViewInv'
  <2>1. asked' \in 0..2
    BY <1>0 DEF PageInv, ViewInv
  <2>2. untold' \in BOOLEAN
    BY <1>0, Zenon
  <2> QED
    BY <1>0, <1>1, <1>2, <2>1, <2>2, Zenon DEF PageInv, ViewInv
<1>4. ToldInv'
  BY <1>0, Zenon DEF ToldInv
<1> QED
  BY <1>0, <1>3, <1>4, PagesViewed

\* A socket is opened, or is closed: what it has not delivered is lost.
LEMMA PagesSubscribe ==
    ASSUME PageInv, Pages!Subscribe PROVE PageInv'
<1>0. /\ socket = "opening" /\ socket' = "live"
      /\ UNCHANGED <<page, reported, edition, planning, command, saving>>
      /\ UNCHANGED <<shown, seen, asked, answers, inbox, broken, untold, pageFaults>>
  BY DEF Pages!Subscribe, Pages!serverVars
<1>1. ShownOk(page, shown, inbox, "live", reported, edition, command)
  BY <1>0, Zenon DEF PageInv, ViewInv, ShownOk
<1>2. ViewInv'
  BY <1>0, <1>1, Zenon DEF PageInv, ViewInv
<1>3. ToldInv'
  BY <1>0, Zenon DEF PageInv, ToldInv
<1> QED
  BY <1>0, <1>2, <1>3, PagesViewed

LEMMA PagesNoInbox ==
    ASSUME NEW s, NEW v, NEW c PROVE InboxOk(<<>>, s, v, c)
BY DEF InboxOk

LEMMA PagesDisconnect ==
    ASSUME PageInv, Pages!Disconnect PROVE PageInv'
<1>0. /\ socket' = "lost" /\ inbox' = <<>> /\ untold' = (untold \/ inbox # <<>>)
      /\ UNCHANGED <<page, reported, edition, planning, command, saving>>
      /\ UNCHANGED <<shown, seen, asked, answers, broken>>
      /\ Pages!MayAsk /\ pageFaults' = pageFaults + 1
  BY DEF Pages!Disconnect, Pages!serverVars, Pages!Fault
<1>1. pageFaults' \in 0..2
  BY <1>0, PagesFault
<1>2. ShownOk(page, shown, <<>>, "lost", reported, edition, command)
  BY Zenon DEF PageInv, ViewInv, ShownOk
<1>3. ViewInv'
  <2>1. untold' \in BOOLEAN
    BY <1>0, Zenon DEF PageInv, ViewInv
  <2>2. InboxOk(<<>>, reported, edition, command)
    BY PagesNoInbox
  <2> QED
    BY <1>0, <1>1, <1>2, <2>1, <2>2, Zenon DEF PageInv, ViewInv
<1>4. ToldInv'
  <2>1. ASSUME ~untold' PROVE Told(page, seen, asked, answers, inbox', saving, edition)
    <3>1. ~untold /\ inbox = inbox'
      BY <1>0, <2>1
    <3> QED
      BY <3>1, Zenon DEF PageInv, ToldInv
  <2> QED
    BY <1>0, <2>1, Zenon DEF ToldInv
<1> QED
  BY <1>0, <1>3, <1>4, PagesViewed

LEMMA PagesLatest ==
    ASSUME NEW a \in Nat, NEW v \in Nat, NEW b \in 0..v, a <= v
    PROVE  Pages!Latest(b, a) \in 0..v /\ (a = v \/ b = v => Pages!Latest(b, a) = v)
BY DEF Pages!Latest

\* A sequence without one of its elements
Lacks(w, q, n, i) ==
    /\ DOMAIN w = 1..(n - 1)
    /\ \A j \in 1..(n - 1) : \E k \in 1..n : k # i /\ w[j] = q[k]
    /\ \A k \in 1..n : k # i => \E j \in 1..(n - 1) : w[j] = q[k]

LEMMA Spliced ==
    ASSUME NEW S, NEW q, NEW n \in Nat, NEW i \in 1..n, NEW A \in Seq(S), NEW B \in Seq(S),
           Len(A) = i - 1, Len(B) = n - i, \A j \in 1..(i - 1) : A[j] = q[j], \A j \in 1..(n - i) : B[j] = q[j + i]
    PROVE  A \o B \in Seq(S) /\ Lacks(A \o B, q, n, i)
<1>1. /\ A \o B \in Seq(S) /\ Len(A \o B) = Len(A) + Len(B)
      /\ \A j \in 1..(Len(A) + Len(B)) : (A \o B)[j] = IF j <= Len(A) THEN A[j] ELSE B[j - Len(A)]
  BY ConcatProperties, Zenon
<1>2. PICK w : w = A \o B
  OBVIOUS
<1>3. /\ w \in Seq(S) /\ Len(w) = n - 1
      /\ \A j \in 1..(n - 1) : w[j] = IF j <= i - 1 THEN A[j] ELSE B[j - (i - 1)]
  BY <1>1, <1>2
<1>4. DOMAIN w = 1..(n - 1)
  BY <1>3
<1>5. ASSUME NEW j \in 1..(n - 1) PROVE \E k \in 1..n : k # i /\ w[j] = q[k]
  <2>1. CASE j <= i - 1
    <3>1. j \in 1..n /\ j # i /\ j \in 1..(i - 1)
      BY <2>1
    <3>2. w[j] = q[j]
      BY <1>3, <2>1, <3>1
    <3> QED
      BY <3>1, <3>2
  <2>2. CASE j > i - 1
    <3>1. PICK d \in 1..(n - i) : d = j - (i - 1)
      BY <2>2
    <3>2. w[j] = B[d] /\ B[d] = q[d + i] /\ d + i \in 1..n /\ d + i # i
      BY <1>3, <2>2, <3>1
    <3> QED
      BY <3>2
  <2> QED
    BY <2>1, <2>2
<1>6. ASSUME NEW k \in 1..n, k # i PROVE \E j \in 1..(n - 1) : w[j] = q[k]
  <2>1. CASE k < i
    BY <1>3, <2>1
  <2>2. CASE k > i
    <3>1. PICK d \in 1..(n - i) : d = k - i
      BY <2>2
    <3>2. PICK j \in 1..(n - 1) : j = k - 1
      BY <2>2
    <3>3. w[j] = B[d] /\ B[d] = q[d + i] /\ d + i = k
      BY <1>3, <2>2, <3>1, <3>2
    <3> QED
      BY <3>3
  <2> QED
    BY <1>6, <2>1, <2>2
<1> QED
  BY <1>2, <1>3, <1>4, <1>5, <1>6 DEF Lacks

\* A fetch is read.
LEMMA AnswersWithout ==
    ASSUME NEW q, NEW s, NEW v, AnswersOk(q, s, v), NEW i \in DOMAIN q
    PROVE  /\ AnswersOk(SubSeq(q, 1, i - 1) \o SubSeq(q, i + 1, Len(q)), s, v)
           /\ \A k \in DOMAIN q : k # i =>
                 \E j \in DOMAIN (SubSeq(q, 1, i - 1) \o SubSeq(q, i + 1, Len(q))) :
                    (SubSeq(q, 1, i - 1) \o SubSeq(q, i + 1, Len(q)))[j] = q[k]
<1> DEFINE S == [status : Pages!Stored, version : Nat]
           n == Len(q)
<1>1. q \in Seq(S)
  BY DEF AnswersOk
<1> HIDE DEF S
<1>2. n \in Nat /\ DOMAIN q = 1..n /\ i \in 1..n /\ \A j \in 1..n : q[j] \in S
  BY <1>1
<1>3. PICK A : A = SubSeq(q, 1, i - 1)
  OBVIOUS
<1>4. PICK B : B = SubSeq(q, i + 1, n)
  OBVIOUS
<1>5. A \in Seq(S) /\ Len(A) = i - 1 /\ \A j \in 1..(i - 1) : A[j] = q[j]
  BY <1>1, <1>2, <1>3
<1> HIDE DEF n
<1>6. B \in Seq(S) /\ Len(B) = n - i /\ \A j \in 1..(n - i) : B[j] = q[j + i]
  <2>1. \A j \in (i + 1)..n : q[j] \in S
    BY <1>2
  <2>2. i + 1 \in Int /\ n \in Int
    BY <1>2
  <2>3. /\ B \in Seq(S) /\ Len(B) = (IF i + 1 <= n THEN n - (i + 1) + 1 ELSE 0)
        /\ \A j \in 1..(n - (i + 1) + 1) : B[j] = q[(i + 1) + j - 1]
    BY <1>4, <2>1, <2>2, SubSeqProperties
  <2>4. Len(B) = n - i /\ n - (i + 1) + 1 = n - i
    BY <1>2, <2>3
  <2>5. \A j \in 1..(n - i) : (i + 1) + j - 1 = j + i
    BY <1>2
  <2> QED
    BY <2>3, <2>4, <2>5, Zenon
<1>7. PICK w : w = A \o B
  OBVIOUS
<1>8. /\ w \in Seq(S) /\ DOMAIN w = 1..(n - 1)
      /\ \A j \in 1..(n - 1) : \E k \in 1..n : w[j] = q[k]
      /\ \A k \in 1..n : k # i => \E j \in 1..(n - 1) : w[j] = q[k]
  <2>1. w \in Seq(S) /\ Lacks(w, q, n, i)
    BY <1>2, <1>5, <1>6, <1>7, Spliced
  <2> QED
    BY <2>1, Zenon DEF Lacks
<1>9. AnswersOk(w, s, v)
  <2>1. \A k \in 1..n : q[k].version <= v /\ (q[k].version = v => q[k].status = s)
    BY <1>2, Zenon DEF AnswersOk
  <2>2. ASSUME NEW j \in DOMAIN w PROVE w[j].version <= v /\ (w[j].version = v => w[j].status = s)
    <3>1. PICK k \in 1..n : w[j] = q[k]
      BY <1>8, <2>2, Zenon
    <3> QED
      BY <2>1, <3>1
  <2> QED
    BY <1>8, <2>2, Zenon DEF AnswersOk, S
<1>10. w = SubSeq(q, 1, i - 1) \o SubSeq(q, i + 1, Len(q))
  BY <1>3, <1>4, <1>7 DEF n
<1> QED
  BY <1>2, <1>8, <1>9, <1>10, Zenon

LEMMA PagesRead ==
    ASSUME PageInv, NEW i \in DOMAIN answers, Pages!Read(i) PROVE PageInv'
<1>0. UNCHANGED <<page, reported, edition, planning, command, saving, asked, broken, pageFaults>>
  BY DEF Pages!Read, Pages!serverVars
<1>1. /\ edition \in Nat /\ page \in {"dashboard", "consumer"} /\ reported \in Pages!Stored
      /\ AnswersOk(answers, reported, edition) /\ InboxOk(inbox, reported, edition, command)
      /\ seen \in 0..edition /\ asked \in 0..2 /\ socket \in {"none", "opening", "live", "lost"}
      /\ broken \in BOOLEAN /\ untold \in BOOLEAN /\ pageFaults \in 0..2
  BY DEF PageInv, ServerInv, ViewInv
<1>2. PICK a : a = answers[i]
  OBVIOUS
<1>3. shown' = a /\ seen' = Pages!Latest(seen, a.version)
  BY <1>2 DEF Pages!Read, Pages!Show
<1>4. /\ a \in [status : Pages!Stored, version : Nat] /\ a.version <= edition
      /\ a.version = edition => a.status = reported
  <2> DEFINE S == [status : Pages!Stored, version : Nat]
  <2>1. answers \in Seq(S)
    BY <1>1 DEF AnswersOk
  <2> HIDE DEF S
  <2>2. a \in S
    BY <1>2, <2>1
  <2>3. a.version <= edition /\ (a.version = edition => a.status = reported)
    BY <1>1, <1>2, Zenon DEF AnswersOk
  <2> QED
    BY <2>2, <2>3 DEF S
<1>5. PICK w : w = SubSeq(answers, 1, i - 1) \o SubSeq(answers, i + 1, Len(answers))
  OBVIOUS
<1>6. answers' = w
  BY <1>5 DEF Pages!Read
<1>7. AnswersOk(w, reported, edition) /\ \A k \in DOMAIN answers : k # i => \E j \in DOMAIN w : w[j] = answers[k]
  BY <1>1, <1>5, AnswersWithout
<1>8. seen' \in 0..edition /\ (a.version = edition \/ seen = edition => seen' = edition)
  BY <1>1, <1>3, <1>4, PagesLatest
<1>9. \/ page = "dashboard" /\ socket' = "opening" /\ inbox' = <<>> /\ untold' = (untold \/ inbox # <<>>)
      \/ page # "dashboard" /\ socket' = socket /\ inbox' = inbox /\ untold' = untold
  BY Zenon DEF Pages!Read
<1>10. InboxOk(inbox', reported, edition, command)
  BY <1>1, <1>9, PagesNoInbox, Zenon
<1>11. ShownOk(page, shown', inbox', socket', reported, edition, command)
  <2>1. shown' \in [status : Pages!Events \cup {"none"}, version : Nat] /\ shown'.version <= edition
    BY <1>3, <1>4 DEF Pages!Events
  <2>2. StatusRight(shown', reported, edition)
    BY <1>3, <1>4 DEF StatusRight, Pages!Means, Pages!Stored
  <2> QED
    BY <2>1, <2>2, Zenon DEF ShownOk
<1>12. ViewInv'
  <2>1. untold' \in BOOLEAN
    BY <1>1, <1>9, Zenon
  <2>2. socket' \in {"none", "opening", "live", "lost"}
    BY <1>1, <1>9
  <2> QED
    BY <1>0, <1>1, <1>6, <1>7, <1>8, <1>10, <1>11, <2>1, <2>2, Zenon DEF ViewInv
<1>13. ToldInv'
  <2>1. ASSUME ~untold' PROVE Told(page, seen', asked, w, inbox', saving, edition)
    <3>1. ~untold /\ (inbox' = inbox \/ (inbox = <<>> /\ inbox' = <<>>))
      <4>1. CASE inbox' = <<>> /\ untold' = (untold \/ inbox # <<>>)
        <5>1. ~(untold \/ inbox # <<>>)
          BY <2>1, <4>1, Zenon
        <5> QED
          BY <4>1, <5>1, Zenon
      <4>2. CASE inbox' = inbox /\ untold' = untold
        BY <2>1, <4>2, Zenon
      <4> QED
        BY <1>9, <4>1, <4>2, Zenon
    <3>2. Told(page, seen, asked, answers, inbox, saving, edition)
      BY <3>1, Zenon DEF PageInv, ToldInv
    <3>3. inbox' = inbox
      BY <3>1, Zenon
    <3>4. CASE \E k \in DOMAIN answers : answers[k].version = edition
      <4>1. PICK k \in DOMAIN answers : answers[k].version = edition
        BY <3>4
      <4>2. k = i => seen' = edition
        BY <1>2, <1>8, <4>1
      <4>3. k # i => \E j \in DOMAIN w : w[j].version = edition
        BY <1>7, <4>1
      <4> QED
        BY <4>2, <4>3 DEF Told
    <3>5. CASE seen = edition
      BY <1>8, <3>5 DEF Told
    <3> QED
      BY <3>2, <3>3, <3>4, <3>5, Zenon DEF Told
  <2> QED
    BY <1>0, <1>6, <2>1, Zenon DEF ToldInv
<1> QED
  BY <1>0, <1>12, <1>13, PagesViewed

\* An event is read.
LEMMA InboxTail ==
    ASSUME NEW q, NEW s, NEW v, NEW c, InboxOk(q, s, v, c), q # <<>>
    PROVE  /\ InboxOk(Tail(q), s, v, c)
           /\ Head(q) \in [status : Pages!Events, version : Nat] /\ Head(q).version <= v
           /\ Tail(q) = <<>> => StatusRight(Head(q), s, v) \/ RollsBack(c)
           /\ \A i \in DOMAIN q : q[i] = Head(q) \/ \E j \in DOMAIN Tail(q) : Tail(q)[j] = q[i]
<1> DEFINE S == [status : Pages!Events, version : Nat]
           n == Len(q)
<1>1. q \in Seq(S)
  BY DEF InboxOk
<1> HIDE DEF S
<1>2. PICK w : w = Tail(q)
  OBVIOUS
<1>3. /\ n \in Nat \ {0} /\ w \in Seq(S) /\ Len(w) = n - 1 /\ DOMAIN w = 1..(n - 1) /\ DOMAIN q = 1..n
      /\ Head(q) = q[1] /\ q[1] \in S /\ (w = <<>> => n = 1)
  <2>1. n \in Nat \ {0} /\ w \in Seq(S) /\ DOMAIN q = 1..n /\ Head(q) = q[1] /\ q[1] \in S
    BY <1>1, <1>2
  <2>2. Len(w) = n - 1 /\ DOMAIN w = 1..(n - 1)
    BY <1>1, <1>2
  <2>3. Len(<<>>) = 0
    OBVIOUS
  <2> QED
    BY <2>1, <2>2, <2>3
<1>4. \A i \in 1..(n - 1) : w[i] = q[i + 1]
  BY <1>1, <1>2
<1>5. q[n].version <= v /\ (StatusRight(q[n], s, v) \/ RollsBack(c)) /\ \A i \in 1..n : q[i].version <= v
  <2>1. n \in 1..n
    BY <1>3
  <2> QED
    BY <1>3, <2>1, Zenon DEF InboxOk
<1> HIDE DEF n
<1>6. 1 \in 1..n /\ \A i \in 1..(n - 1) : i + 1 \in 1..n
  BY <1>3
<1>7. InboxOk(w, s, v, c)
  <2>1. \A i \in DOMAIN w : w[i].version <= v
    BY <1>3, <1>4, <1>5, <1>6
  <2>2. w # <<>> => w[Len(w)] = q[n]
    <3>1. ASSUME w # <<>> PROVE n - 1 \in 1..(n - 1) /\ (n - 1) + 1 = n
      <4>1. n - 1 # 0
        BY <1>3, <3>1
      <4> QED
        BY <1>3, <4>1
    <3> QED
      BY <1>3, <1>4, <3>1
  <2> QED
    BY <1>3, <1>5, <2>1, <2>2, Zenon DEF InboxOk, S
<1>8. ASSUME NEW i \in 1..n PROVE q[i] = q[1] \/ \E j \in 1..(n - 1) : w[j] = q[i]
  <2>1. i # 1 => i - 1 \in 1..(n - 1) /\ (i - 1) + 1 = i
    BY <1>3
  <2> QED
    BY <1>4, <2>1
<1>9. w = <<>> => StatusRight(q[1], s, v) \/ RollsBack(c)
  BY <1>3, <1>5
<1>10. Head(q) \in S /\ Head(q).version <= v
  BY <1>3, <1>5, <1>6
<1>11. /\ InboxOk(Tail(q), s, v, c)
       /\ Tail(q) = <<>> => StatusRight(Head(q), s, v) \/ RollsBack(c)
  BY <1>2, <1>3, <1>7, <1>9
<1>12. \A i \in DOMAIN q : q[i] = Head(q) \/ \E j \in DOMAIN Tail(q) : Tail(q)[j] = q[i]
  BY <1>2, <1>3, <1>8, Zenon
<1> QED
  BY <1>10, <1>11, <1>12, Zenon DEF S

LEMMA PagesOnMessageDashboard ==
    ASSUME PageInv, Pages!OnMessageDashboard PROVE PageInv'
<1>0. /\ page = "dashboard" /\ inbox # <<>> /\ asked + Len(answers) < 2
      /\ inbox' = Tail(inbox) /\ asked' = asked + 1
      /\ UNCHANGED <<page, reported, edition, planning, command, saving>>
      /\ UNCHANGED <<shown, seen, answers, socket, broken, untold, pageFaults>>
  BY DEF Pages!OnMessageDashboard, Pages!serverVars
<1>1. asked' \in 0..2 /\ asked' > 0
  <2>1. Len(answers) \in Nat
    <3> DEFINE S == [status : Pages!Stored, version : Nat]
    <3>1. answers \in Seq(S)
      BY DEF PageInv, ViewInv, AnswersOk
    <3> HIDE DEF S
    <3> QED
      BY <3>1
  <2> QED
    BY <1>0, <2>1 DEF PageInv, ViewInv
<1>2. InboxOk(Tail(inbox), reported, edition, command)
  BY <1>0, InboxTail DEF PageInv, ViewInv
<1>3. ShownOk(page, shown, inbox', socket, reported, edition, command)
  BY <1>0, Zenon DEF PageInv, ViewInv, ShownOk
<1>4. ViewInv'
  BY <1>0, <1>1, <1>2, <1>3, Zenon DEF PageInv, ViewInv
<1>5. ToldInv'
  BY <1>1 DEF ToldInv, Told
<1> QED
  BY <1>0, <1>4, <1>5, PagesViewed

LEMMA PagesOnMessageConsumer ==
    ASSUME PageInv, Pages!OnMessageConsumer PROVE PageInv'
<1>0. /\ page = "consumer" /\ inbox # <<>> /\ inbox' = Tail(inbox)
      /\ UNCHANGED <<page, reported, edition, planning, command, saving>>
      /\ UNCHANGED <<asked, answers, socket, broken, untold, pageFaults>>
  BY DEF Pages!OnMessageConsumer, Pages!serverVars
<1>1. /\ edition \in Nat /\ InboxOk(inbox, reported, edition, command) /\ seen \in 0..edition
      /\ ShownOk(page, shown, inbox, socket, reported, edition, command)
  BY DEF PageInv, ServerInv, ViewInv
<1>2. PICK m : m = Head(inbox)
  OBVIOUS
<1>3. PICK w : w = Tail(inbox)
  OBVIOUS
<1>4. /\ InboxOk(w, reported, edition, command)
      /\ m \in [status : Pages!Events, version : Nat] /\ m.version <= edition
      /\ w = <<>> => StatusRight(m, reported, edition) \/ RollsBack(command)
      /\ \A i \in DOMAIN inbox : inbox[i] = m \/ \E j \in DOMAIN w : w[j] = inbox[i]
  BY <1>0, <1>1, <1>2, <1>3, InboxTail
<1>5. /\ seen' = Pages!Latest(seen, m.version)
      /\ (shown = Pages!NothingShown /\ shown' = shown) \/ shown' = m
  BY <1>2, Zenon DEF Pages!OnMessageConsumer
<1>6. seen' \in 0..edition /\ (m.version = edition \/ seen = edition => seen' = edition)
  BY <1>1, <1>4, <1>5, PagesLatest
<1>7. ShownOk(page, shown', w, socket, reported, edition, command)
  <2>1. CASE shown = Pages!NothingShown /\ shown' = shown
    BY <1>1, <2>1, Zenon DEF ShownOk
  <2>2. CASE shown' = m
    <3>1. m \in [status : Pages!Events \cup {"none"}, version : Nat]
      BY <1>4
    <3> QED
      BY <1>0, <1>4, <2>2, <3>1, Zenon DEF ShownOk
  <2> QED
    BY <1>5, <2>1, <2>2
<1>8. ViewInv'
  BY <1>0, <1>3, <1>4, <1>6, <1>7, Zenon DEF PageInv, ViewInv
<1>9. ToldInv'
  <2>1. ASSUME ~untold PROVE Told(page, seen', asked, answers, w, saving, edition)
    <3>1. Told(page, seen, asked, answers, inbox, saving, edition)
      BY <2>1, Zenon DEF PageInv, ToldInv
    <3>2. CASE \E i \in DOMAIN inbox : inbox[i].version = edition
      <4>1. PICK i \in DOMAIN inbox : inbox[i].version = edition
        BY <3>2
      <4>2. CASE inbox[i] = m
        BY <1>6, <4>1, <4>2 DEF Told
      <4>3. CASE \E j \in DOMAIN w : w[j] = inbox[i]
        BY <4>1, <4>3 DEF Told
      <4> QED
        BY <1>4, <4>2, <4>3
    <3>3. CASE seen = edition
      BY <1>6, <3>3 DEF Told
    <3>4. page # "dashboard"
      BY <1>0
    <3> QED
      BY <3>1, <3>2, <3>3, <3>4, Zenon DEF Told
  <2> QED
    BY <1>0, <1>3, <2>1, Zenon DEF ToldInv
<1> QED
  BY <1>0, <1>8, <1>9, PagesViewed

\* The answer to a request is read: what it is at stays.
LEMMA CommandReads ==
    ASSUME PageInv, NEW b \in Pages!Askers, command' = [command EXCEPT ![b].reply = "read"]
    PROVE  /\ CommandsOk(command', reported, edition) /\ SavesOk(saving, reported, edition, command')
           /\ RollsBack(command) => RollsBack(command')
<1>1. PICK o, n, p, a : command[b] = Command(o, n, p, a) /\ Command(o, n, p, a) \in CommandType
  BY CommandFields
<1>2. PICK k : k = Command(o, n, p, "read")
  OBVIOUS
<1>3. [command[b] EXCEPT !.reply = "read"] = k
  BY <1>1, <1>2 DEF Command
<1>4. command' = [command EXCEPT ![b] = k]
  BY <1>3, Zenon
<1>5. k \in CommandType /\ k.pc = command[b].pc /\ k.reply = "read" /\ k.version = command[b].version
  BY <1>1, <1>2 DEF Command, CommandType
<1>6. /\ CommandsOk(command, reported, edition) /\ edition \in Nat /\ SavesOk(saving, reported, edition, command)
      /\ command = [x \in Pages!Askers |-> command[x]]
  BY CommandFields DEF PageInv, ServerInv
<1>7. \A x \in Pages!Askers : command'[x].pc = command[x].pc
  BY <1>4, <1>5, <1>6
<1>8. CommandsOk(command', reported, edition)
  <2>1. k.version <= edition /\ (k.version = edition /\ edition >= 1 => reported = "approved")
        /\ (k.pc = "begin" \/ k.reply = "ok" => edition >= 1)
    BY <1>5, <1>6 DEF CommandsOk
  <2>2. CommandsOk([command EXCEPT ![b] = k], reported, edition)
    BY <1>5, <1>6, <2>1, CommandsSet
  <2> QED
    BY <1>4, <2>2
<1>9. ASSUME NEW i \in DOMAIN saving, saving[i].by # "plan" PROVE command'[saving[i].by].pc = "saving"
  <2>1. saving[i] \in SavingType
    <3>1. saving \in Seq(SavingType)
      BY <1>6 DEF SavesOk
    <3> HIDE DEF SavingType
    <3> QED
      BY <3>1
  <2>2. saving[i].by \in Pages!Askers
    BY <1>9, <2>1 DEF SavingType
  <2>3. command[saving[i].by].pc = "saving"
    BY <1>6, <1>9, Zenon DEF SavesOk
  <2> QED
    BY <1>7, <2>2, <2>3
<1>10. SavesOk(saving, reported, edition, command')
  BY <1>6, <1>9, Zenon DEF SavesOk
<1>11. RollsBack(command) => RollsBack(command')
  BY <1>7 DEF RollsBack
<1> QED
  BY <1>8, <1>10, <1>11

LEMMA PagesReplied ==
    ASSUME PageInv, NEW b \in Pages!Buttons, Pages!Replied(b) PROVE PageInv'
<1>0. /\ command[b].reply \in {"ok", "refused"} /\ command' = [command EXCEPT ![b].reply = "read"]
      /\ UNCHANGED <<page, reported, edition, planning, saving, answers, socket, inbox, untold, pageFaults>>
      /\ b \in Pages!Askers
  BY DEF Pages!Replied, Pages!Askers
<1>1. /\ CommandsOk(command, reported, edition) /\ edition \in Nat /\ page \in {"dashboard", "consumer"}
      /\ AnswersOk(answers, reported, edition) /\ InboxOk(inbox, reported, edition, command)
      /\ ShownOk(page, shown, inbox, socket, reported, edition, command)
      /\ seen \in 0..edition /\ asked \in 0..2 /\ socket \in {"none", "opening", "live", "lost"}
      /\ broken \in BOOLEAN /\ untold \in BOOLEAN /\ pageFaults \in 0..2
  BY DEF PageInv, ServerInv, ViewInv
<1>2. /\ CommandsOk(command', reported, edition) /\ SavesOk(saving, reported, edition, command')
      /\ RollsBack(command) => RollsBack(command')
  BY <1>0, CommandReads
<1>3. /\ InboxOk(inbox, reported, edition, command')
      /\ ShownOk(page, shown, inbox, socket, reported, edition, command')
  BY <1>1, <1>2, PagesFrame
<1>4. ServerInv'
  BY <1>0, <1>2, Zenon DEF PageInv, ServerInv
<1>5. ~untold => Told(page, seen, asked, answers, inbox, saving, edition)
  BY Zenon DEF PageInv, ToldInv
<1>6. CASE UNCHANGED <<shown, seen, asked>> /\ broken' \in BOOLEAN
  <2>1. ViewInv'
    BY <1>0, <1>1, <1>3, <1>6, Zenon DEF ViewInv
  <2>2. ToldInv'
    BY <1>0, <1>5, <1>6, Zenon DEF ToldInv
  <2> QED
    BY <1>4, <2>1, <2>2 DEF PageInv
<1>7. CASE UNCHANGED <<shown, seen, broken>> /\ asked' = asked + 1 /\ asked + Len(answers) < 2
  <2>1. asked' \in 0..2 /\ asked' > 0
    <3>1. Len(answers) \in Nat
      <4> DEFINE S == [status : Pages!Stored, version : Nat]
      <4>1. answers \in Seq(S)
        BY <1>1 DEF AnswersOk
      <4> HIDE DEF S
      <4> QED
        BY <4>1
    <3> QED
      BY <1>1, <1>7, <3>1
  <2>2. ViewInv'
    BY <1>0, <1>1, <1>3, <1>7, <2>1, Zenon DEF ViewInv
  <2>3. ToldInv'
    BY <2>1 DEF ToldInv, Told
  <2> QED
    BY <1>4, <2>2, <2>3 DEF PageInv
<1>8. CASE /\ command[b].reply = "ok" /\ UNCHANGED <<asked, broken>>
           /\ Pages!Show([status |-> "executing", version |-> command[b].version])
  <2>1. PICK v2 : v2 = command[b].version
    OBVIOUS
  <2>2. shown' = [status |-> "executing", version |-> v2] /\ seen' = Pages!Latest(seen, v2)
    BY <1>8, <2>1 DEF Pages!Show
  <2>3. v2 \in Nat /\ v2 <= edition /\ (v2 = edition => reported = "approved")
    BY <1>0, <1>1, <1>8, <2>1 DEF CommandsOk, CommandType
  <2>4. seen' \in 0..edition /\ (v2 = edition \/ seen = edition => seen' = edition)
    BY <1>1, <2>2, <2>3, PagesLatest
  <2>5. ShownOk(page, shown', inbox, socket, reported, edition, command')
    <3>1. shown' \in [status : Pages!Events \cup {"none"}, version : Nat] /\ shown'.version <= edition
      BY <2>2, <2>3 DEF Pages!Events
    <3>2. StatusRight(shown', reported, edition)
      BY <2>2, <2>3 DEF StatusRight, Pages!Means
    <3> QED
      BY <3>1, <3>2, Zenon DEF ShownOk
  <2>6. ViewInv'
    BY <1>0, <1>1, <1>3, <1>8, <2>4, <2>5, Zenon DEF ViewInv
  <2>7. ToldInv'
    <3>1. ASSUME ~untold PROVE Told(page, seen', asked, answers, inbox, saving, edition)
      <4>1. seen = edition => seen' = edition
        BY <2>4
      <4> QED
        BY <1>5, <3>1, <4>1, Zenon DEF Told
    <3> QED
      BY <1>0, <1>8, <3>1, Zenon DEF ToldInv
  <2> QED
    BY <1>4, <2>6, <2>7 DEF PageInv
<1>9. CASE Pages!RepliedDashboard(b)
  <2>1. \/ UNCHANGED <<shown, seen, asked>> /\ broken' = TRUE
        \/ UNCHANGED <<shown, seen, broken>> /\ asked' = asked + 1 /\ asked + Len(answers) < 2
    BY <1>9, Zenon DEF Pages!RepliedDashboard
  <2> QED
    BY <1>6, <1>7, <2>1, Zenon
<1>10. CASE Pages!RepliedConsumer(b)
  <2>1. \/ UNCHANGED <<shown, seen, asked, broken>>
        \/ /\ command[b].reply = "ok" /\ UNCHANGED <<asked, broken>>
           /\ Pages!Show([status |-> "executing", version |-> command[b].version])
    BY <1>10, Zenon DEF Pages!RepliedConsumer
  <2> QED
    BY <1>1, <1>6, <1>8, <2>1, Zenon
<1> QED
  BY <1>9, <1>10, Zenon DEF Pages!Replied

-----------------------------------------------------------------------------
LEMMA PagesBegin ==
    ASSUME Pages!Init PROVE PageInv
<1>1. /\ page \in {"dashboard", "consumer"} /\ reported = "planning" /\ edition = 0 /\ planning = TRUE
      /\ saving = <<>> /\ shown = Pages!NothingShown /\ seen = 0 /\ asked = 1 /\ answers = <<>>
      /\ socket \in {"opening", "none"} /\ inbox = <<>> /\ broken = FALSE /\ untold = FALSE /\ pageFaults = 0
  BY DEF Pages!Init
<1>2. CommandsOk(command, reported, edition)
  <2>1. command \in [Pages!Askers -> {[op |-> o, version |-> 0, pc |-> "idle", reply |-> "none"] : o \in Pages!Buttons}]
    BY DEF Pages!Init
  <2>2. ASSUME NEW r \in Pages!Askers
        PROVE  command[r] \in CommandType /\ command[r].version = 0 /\ command[r].pc = "idle" /\ command[r].reply = "none"
    BY <2>1 DEF CommandType
  <2>3. command = [r \in Pages!Askers |-> command[r]]
    BY <2>1
  <2>4. 0 <= 0 /\ ~(0 >= 1)
    OBVIOUS
  <2> QED
    BY <1>1, <2>2, <2>3, <2>4 DEF CommandsOk
<1>3. SavesOk(<<>>, reported, edition, command) /\ AnswersOk(<<>>, reported, edition)
  BY DEF SavesOk, AnswersOk
<1>4. InboxOk(<<>>, reported, edition, command)
  BY PagesNoInbox
<1>5. ShownOk(page, shown, inbox, socket, reported, edition, command)
  <2>1. shown \in [status : Pages!Events \cup {"none"}, version : Nat] /\ shown.version <= edition
    BY <1>1 DEF Pages!NothingShown
  <2> QED
    BY <1>1, <2>1, Zenon DEF ShownOk
<1>6. ServerInv
  <2>1. reported \in Pages!Stored /\ edition \in Nat /\ planning \in BOOLEAN /\ (~planning => edition >= 1)
    BY <1>1 DEF Pages!Stored
  <2> QED
    BY <1>1, <1>2, <1>3, <2>1, Zenon DEF ServerInv
<1>7. ViewInv
  <2>1. seen \in 0..edition /\ asked \in 0..2 /\ socket \in {"none", "opening", "live", "lost"} /\ pageFaults \in 0..2
    <3>1. edition = 0 /\ seen = 0 /\ asked = 1 /\ socket \in {"opening", "none"} /\ pageFaults = 0
      BY <1>1
    <3> QED
      BY <3>1
  <2>2. broken \in BOOLEAN /\ untold \in BOOLEAN
    BY <1>1, Zenon
  <2> QED
    BY <1>1, <1>3, <1>4, <1>5, <2>1, <2>2, Zenon DEF ViewInv
<1>8. ToldInv
  BY <1>1 DEF ToldInv, Told
<1> QED
  BY <1>6, <1>7, <1>8 DEF PageInv

LEMMA PagesStep ==
    ASSUME PageInv, [Pages!Next]_(Pages!pageVars) PROVE PageInv'
<1>1. ASSUME NEW r \in Pages!Askers,
             Pages!Take(r) \/ Pages!Funds(r) \/ Pages!BeginRun(r) \/ Pages!EndRun(r) \/ Pages!EndRollback(r) \/ Pages!RunThrows(r)
      PROVE  PageInv'
  BY <1>1, PagesTake, PagesFunds, PagesBeginRun, PagesEndRun, PagesEndRollback, PagesRunThrows
<1>2. CASE Pages!Plan \/ Pages!Saved
  BY <1>2, PagesPlan, PagesSaved
<1>3. CASE Pages!Other
  <2>1. "other" \in Pages!Askers
    BY DEF Pages!Askers
  <2> QED
    BY <1>3, <2>1, PagesAsks DEF Pages!Other
<1>4. CASE Pages!AnswerFetch \/ Pages!FetchFails \/ Pages!Subscribe \/ Pages!Disconnect
  BY <1>4, PagesAnswerFetch, PagesFetchFails, PagesSubscribe, PagesDisconnect
<1>5. ASSUME NEW i \in DOMAIN answers, Pages!Read(i) PROVE PageInv'
  BY <1>5, PagesRead
<1>6. CASE Pages!OnMessageDashboard \/ Pages!OnMessageConsumer
  BY <1>6, PagesOnMessageDashboard, PagesOnMessageConsumer
<1>7. CASE Pages!ClickApprove \/ Pages!ClickCancel
  <2>1. ASSUME NEW b \in Pages!Askers, Pages!Click(b) PROVE PageInv'
    BY <2>1, PagesAsks DEF Pages!Click
  <2>2. "approve" \in Pages!Askers /\ "cancel" \in Pages!Askers
    BY DEF Pages!Askers, Pages!Buttons
  <2> QED
    BY <1>7, <2>1, <2>2, Zenon DEF Pages!ClickApprove, Pages!ClickCancel
<1>8. ASSUME NEW b \in Pages!Buttons, Pages!Replied(b) PROVE PageInv'
  BY <1>8, PagesReplied
<1>9. CASE UNCHANGED Pages!pageVars
  <2>1. /\ UNCHANGED <<page, reported, edition, planning, command, saving>>
        /\ UNCHANGED <<shown, seen, asked, answers, socket, inbox, broken, untold, pageFaults>>
    BY <1>9 DEF Pages!pageVars
  <2> QED
    BY <2>1, Zenon DEF PageInv, ServerInv, ViewInv, ToldInv
<1> QED
  BY <1>1, <1>2, <1>3, <1>4, <1>5, <1>6, <1>7, <1>8, <1>9, Zenon DEF Pages!Next

LEMMA PagesTyped ==
    ASSUME PageInv PROVE Pages!TypeOK
<1>1. command \in [Pages!Askers -> CommandType]
  BY DEF PageInv, ServerInv, CommandsOk
<1>2. /\ saving \in Seq(SavingType) /\ answers \in Seq([status : Pages!Stored, version : Nat])
      /\ inbox \in Seq([status : Pages!Events, version : Nat])
      /\ shown \in [status : Pages!Events \cup {"none"}, version : Nat]
  BY Zenon DEF PageInv, ServerInv, ViewInv, SavesOk, AnswersOk, InboxOk, ShownOk
<1>3. seen \in Nat
  BY DEF PageInv, ViewInv, ServerInv
<1> QED
  BY <1>1, <1>2, <1>3, Zenon DEF PageInv, ServerInv, ViewInv, Pages!TypeOK, CommandType, SavingType

LEMMA PagesAreCurrent ==
    ASSUME PageInv PROVE Pages!PageCurrent
<1> SUFFICES ASSUME Pages!Settled, ~untold, ~(shown.version < seen) PROVE Pages!Means(shown.status) = reported
  BY DEF Pages!PageCurrent
<1>1. /\ ~planning /\ saving = <<>> /\ asked = 0 /\ answers = <<>> /\ socket = "live" /\ inbox = <<>>
      /\ \A r \in Pages!Askers : command[r].pc \in {"idle", "done"}
  BY DEF Pages!Settled
<1>2. edition \in Nat /\ edition >= 1 /\ ShownOk(page, shown, inbox, socket, reported, edition, command)
      /\ Told(page, seen, asked, answers, inbox, saving, edition)
  BY <1>1, Zenon DEF PageInv, ServerInv, ViewInv, ToldInv
<1>3. seen = edition
  <2>1. DOMAIN <<>> = {} /\ ~(0 > 0)
    OBVIOUS
  <2> QED
    BY <1>1, <1>2, <2>1 DEF Told
<1>4. shown.version = edition
  BY <1>2, <1>3 DEF ShownOk
<1>5. shown # Pages!NothingShown
  BY <1>2, <1>4 DEF Pages!NothingShown
<1>6. ~RollsBack(command)
  BY <1>1 DEF RollsBack
<1>7. StatusRight(shown, reported, edition)
  BY <1>1, <1>2, <1>5, <1>6, Zenon DEF ShownOk
<1> QED
  BY <1>4, <1>7 DEF StatusRight

-----------------------------------------------------------------------------
\* WalletPages: lists are read from the engine in the order of its saves, and a list that is
\* shown was asked for after the one before, unless two requests were under way (twice).

\* The engine, as far as the pages of a wallet tell: a save is counted and puts the workflow
\* on the list, so what has been completed has been saved as often as it takes.
FlowType == [status : WalletView!Status, task : {"plan", "execute", "none"}]

\* Each workflow was saved as often as its status says.
FlowsOk(w, n) ==
    /\ w \in Seq(FlowType) /\ Len(w) >= 1 /\ n \in 2..4 /\ n >= Len(w) + 1
    /\ w[1].task # "plan"
    /\ w[1].task = "execute" => n >= Len(w) + 2
    /\ w[1].status = "completed" => n >= Len(w) + 3
    /\ \A id \in 2..Len(w) : /\ w[id].task # "execute" /\ w[id].status # "completed"
                             /\ w[id].status = "awaiting_approval" => n >= 4

\* The engine's records
EngineInv ==
    /\ FlowsOk(flow, saved) /\ funds \in Nat
    /\ submit \in {"idle", "sent", "saving", "answered"}
    /\ submit = "saving" => Len(flow) >= 2
    /\ pushing \in Seq(1..Len(flow)) /\ listed \in Seq(1..Len(flow))
    /\ Len(listed) + Len(pushing) = saved

\* A list that the engine has answered: it is no newer than the engine's.
ListType(n) == [list : Seq([id : 1..n, status : WalletView!Status]), version : Nat, whole : BOOLEAN]

\* A whole list has an entry for each time a workflow was saved.
SavesCount(x) ==
    x.whole => LET done == {x.list[i].id : i \in {j \in DOMAIN x.list : x.list[j].status = "completed"}} IN
               WalletView!Stats(x.list).completed >= 4 * WalletView!Cardinality(done)

\* A list that the engine may have answered
ListOk(x, n, v) == x \in ListType(n) /\ x.version <= v /\ SavesCount(x)

\* Balances, requests and answers
BalanceType == [kind : {"null", "record", "number"}, amount : Nat]

\* A request of a page, with its answer
FetchType(n) == [what : {"info", "balance", "history", "list"}, pc : {"sent", "ok"},
                 value : ListType(n), balance : BalanceType]

\* An answer is a list of the past, or a balance as a number.
FetchOk(f, n, v) ==
    /\ f \in FetchType(n) /\ ListOk(f.value, n, v)
    /\ f.pc = "ok" /\ f.what = "balance" => f.balance.kind = "number"

\* Requests that do not overlap: there is one for a list, and it is no older than what is seen.
AskedInTurn(q, tw, la) ==
    tw \/ /\ \A i, j \in DOMAIN q : q[i].what = "list" /\ q[j].what = "list" => i = j
          /\ \A i \in DOMAIN q : q[i].what = "list" /\ q[i].pc = "ok" => q[i].value.version >= la

\* The requests of a page
FetchesOk(q, n, v, tw, la) ==
    /\ q \in Seq(FetchType(n)) /\ Len(q) <= 2
    /\ \A i \in DOMAIN q : FetchOk(q[i], n, v)
    /\ AskedInTurn(q, tw, la)

\* What is on its way and what is shown
SeenInv ==
    /\ FetchesOk(fetches, Len(flow), saved, twice, latest)
    /\ ListOk(list, Len(flow), saved)
    /\ latest \in 0..saved /\ (twice \/ list.version = latest)

\* A balance of the engine's is never a record, and what would show it is down.
BalanceOk(b, ap) == b \in BalanceType /\ (b.kind = "record" => b.amount = 0) /\ (ap = "consumer" => b.kind # "null")

\* What shows a balance of the engine's
Unseemly(ap, p, lo, b) ==
    b.kind = "number" /\ (\/ ap = "consumer" /\ p \in {"escrow", "new"}
                          \/ ap = "dashboard" /\ p = "escrow" /\ ~lo)

\* What is in the browser
BrowserInv ==
    /\ app \in {"dashboard", "consumer"} /\ connected \in BOOLEAN
    /\ view \in {"home", "new", "list", "analytics", "escrow", "settings", "workflow"}
    /\ loading \in BOOLEAN /\ filter \in {"all", "completed"} /\ down \in BOOLEAN /\ twice \in BOOLEAN
    /\ incidents \in 0..1
    /\ BalanceOk(balance, app)
    /\ app = "consumer" => submit = "idle"
    /\ ~down => ~Unseemly(app, view, loading, balance)

\* All of it
WalletPageInv == EngineInv /\ SeenInv /\ BrowserInv

-----------------------------------------------------------------------------
\* What has been answered stays right while workflows and saves are added.
LEMMA ListGrows ==
    ASSUME NEW n \in Nat, NEW v \in Nat, NEW n2 \in Nat, NEW v2 \in Nat, n <= n2, v <= v2
    PROVE  /\ \A x \in ListType(n) : x \in ListType(n2)
           /\ \A x : ListOk(x, n, v) => ListOk(x, n2, v2)
           /\ \A f : FetchOk(f, n, v) => FetchOk(f, n2, v2)
           /\ \A q, tw, la : FetchesOk(q, n, v, tw, la) => FetchesOk(q, n2, v2, tw, la)
<1>1. \A x \in ListType(n) : x \in ListType(n2)
  <2>1. [id : 1..n, status : WalletView!Status] \subseteq [id : 1..n2, status : WalletView!Status]
    <3>1. \A i \in 1..n : i \in 1..n2
      OBVIOUS
    <3> QED
      BY <3>1
  <2> DEFINE S == [id : 1..n, status : WalletView!Status]
             T == [id : 1..n2, status : WalletView!Status]
  <2>2. S \subseteq T
    BY <2>1
  <2> HIDE DEF S, T
  <2>3. \A q \in Seq(S) : q \in Seq(T)
    BY <2>2
  <2> QED
    BY <2>3 DEF ListType, S, T
<1>2. \A x : ListOk(x, n, v) => ListOk(x, n2, v2)
  <2> SUFFICES ASSUME NEW x, ListOk(x, n, v) PROVE ListOk(x, n2, v2)
    OBVIOUS
  <2>1. x \in ListType(n) /\ x.version <= v /\ SavesCount(x)
    BY DEF ListOk
  <2>2. x.version \in Nat
    BY <2>1 DEF ListType
  <2>3. x.version <= v2
    BY <2>1, <2>2
  <2> QED
    BY <1>1, <2>1, <2>3 DEF ListOk
<1>3. FetchType(n) \subseteq FetchType(n2)
  <2> HIDE DEF ListType
  <2> QED
    BY <1>1 DEF FetchType
<1>4. \A f : FetchOk(f, n, v) => FetchOk(f, n2, v2)
  BY <1>2, <1>3, Zenon DEF FetchOk
<1>5. \A q \in Seq(FetchType(n)) : q \in Seq(FetchType(n2))
  <2> HIDE DEF FetchType
  <2> QED
    BY <1>3
<1> QED
  BY <1>1, <1>2, <1>4, <1>5, Zenon DEF FetchesOk

LEMMA ViewKnown ==
    ASSUME NEW p \in {"home", "new", "list", "analytics", "escrow", "settings", "workflow"}
    PROVE  /\ WalletView!ViewOf(p).asks \in {"info", "balance", "list", "nothing"}
           /\ WalletView!ViewOf(p).again => WalletView!ViewOf(p).asks # "nothing"
           /\ WalletView!ViewOf(p).starts \in {WalletView!NoBalance, WalletView!ZeroBalance}
           /\ p = "escrow" => WalletView!ViewOf(p).asks # "list"
<1>1. CASE p = "home"
  BY <1>1 DEF WalletView!ViewOf, WalletView!DashboardHome, WalletView!ConsumerHome, WalletView!Quiet
<1>2. CASE p = "new"
  BY <1>2 DEF WalletView!ViewOf, WalletView!DashboardNew, WalletView!ConsumerNew, WalletView!Quiet
<1>3. CASE p = "list"
  BY <1>3 DEF WalletView!ViewOf, WalletView!DashboardList, WalletView!ConsumerList, WalletView!Quiet
<1>4. CASE p = "analytics"
  BY <1>4 DEF WalletView!ViewOf, WalletView!DashboardAnalytics, WalletView!ConsumerAnalytics, WalletView!Quiet
<1>5. CASE p = "escrow"
  BY <1>5 DEF WalletView!ViewOf, WalletView!DashboardEscrow, WalletView!ConsumerEscrow, WalletView!Quiet
<1>6. CASE p \in {"settings", "workflow"}
  BY <1>6 DEF WalletView!ViewOf, WalletView!Quiet
<1> QED
  BY <1>1, <1>2, <1>3, <1>4, <1>5, <1>6

LEMMA ViewThrows ==
    ASSUME app \in {"dashboard", "consumer"}, Unseemly(app, view, loading, balance)
    PROVE  WalletView!View.throws
<1>1. CASE view = "new"
  BY <1>1 DEF Unseemly, WalletView!View, WalletView!ViewOf, WalletView!DashboardNew, WalletView!ConsumerNew, WalletView!Quiet
<1>2. CASE view = "escrow"
  BY <1>2 DEF Unseemly, WalletView!View, WalletView!ViewOf, WalletView!DashboardEscrow, WalletView!ConsumerEscrow, WalletView!Quiet
<1> QED
  BY <1>1, <1>2 DEF Unseemly

LEMMA ViewThrowsNext ==
    ASSUME app' \in {"dashboard", "consumer"}, WalletView!Rendered
    PROVE  ~down' => ~Unseemly(app', view', loading', balance')
<1> SUFFICES ASSUME ~down', Unseemly(app', view', loading', balance') PROVE FALSE
  OBVIOUS
<1>1. CASE view' = "new"
  BY <1>1 DEF Unseemly, WalletView!Rendered, WalletView!View, WalletView!ViewOf, WalletView!DashboardNew, WalletView!ConsumerNew, WalletView!Quiet
<1>2. CASE view' = "escrow"
  BY <1>2 DEF Unseemly, WalletView!Rendered, WalletView!View, WalletView!ViewOf, WalletView!DashboardEscrow, WalletView!ConsumerEscrow, WalletView!Quiet
<1> QED
  BY <1>1, <1>2 DEF Unseemly

-----------------------------------------------------------------------------
\* The engine's steps

\* A step that no page sees
WalletUnseen == UNCHANGED <<app, view, connected, fetches, balance, list, loading, filter, down, latest, twice, incidents>>

LEMMA WalletEngine ==
    ASSUME WalletPageInv, EngineInv', WalletUnseen, Len(flow) <= Len(flow'), saved <= saved',
           app = "consumer" => submit' = "idle"
    PROVE  WalletPageInv'
<1>0. UNCHANGED <<app, view, connected, fetches, balance, list, loading, filter, down, latest, twice, incidents>>
  BY DEF WalletUnseen
<1>1. Len(flow) \in Nat /\ saved \in Nat /\ Len(flow') \in Nat /\ saved' \in Nat
  BY DEF WalletPageInv, EngineInv, FlowsOk
<1>2. FetchesOk(fetches, Len(flow), saved, twice, latest) /\ ListOk(list, Len(flow), saved)
  BY DEF WalletPageInv, SeenInv
<1>3. FetchesOk(fetches, Len(flow'), saved', twice, latest) /\ ListOk(list, Len(flow'), saved')
  BY <1>1, <1>2, ListGrows
<1>4. latest \in 0..saved'
  BY <1>1 DEF WalletPageInv, SeenInv
<1>5. SeenInv'
  BY <1>0, <1>3, <1>4, Zenon DEF WalletPageInv, SeenInv
<1>6. BrowserInv'
  BY <1>0, Zenon DEF WalletPageInv, BrowserInv
<1> QED
  BY <1>5, <1>6 DEF WalletPageInv

\* A workflow's record
Flow(s, t) == [status |-> s, task |-> t]

LEMMA FlowSet ==
    ASSUME EngineInv, NEW id \in DOMAIN flow, NEW s \in WalletView!Status, NEW t \in {"plan", "execute", "none"},
           WalletView!Set(id, s, t), funds' \in Nat, submit' = submit,
           id = 1 => t # "plan" /\ (t # "execute" \/ saved >= Len(flow) + 1) /\ (s # "completed" \/ saved >= Len(flow) + 2),
           id # 1 => t # "execute" /\ s # "completed" /\ (s # "awaiting_approval" \/ saved >= 3)
    PROVE  EngineInv' /\ Len(flow) <= Len(flow') /\ saved <= saved'
<1>1. /\ saved < 4 /\ saved' = saved + 1 /\ pushing' = Append(pushing, id) /\ listed' = listed
      /\ flow' = [flow EXCEPT ![id].status = s, ![id].task = t]
  BY DEF WalletView!Set, WalletView!Save
<1> DEFINE n == Len(flow)
<1>2. /\ flow \in Seq(FlowType) /\ n >= 1 /\ saved \in 2..4 /\ saved >= n + 1 /\ flow[1].task # "plan"
      /\ flow[1].task = "execute" => saved >= n + 2
      /\ flow[1].status = "completed" => saved >= n + 3
      /\ \A i \in 2..n : /\ flow[i].task # "execute" /\ flow[i].status # "completed"
                         /\ flow[i].status = "awaiting_approval" => saved >= 4
  BY DEF EngineInv, FlowsOk
<1>3. n \in Nat /\ DOMAIN flow = 1..n /\ flow = [i \in 1..n |-> flow[i]] /\ \A i \in 1..n : flow[i] \in FlowType
  <2> HIDE DEF FlowType
  <2> QED
    BY <1>2
<1>4. PICK k : k = Flow(s, t)
  OBVIOUS
<1>5. k \in FlowType /\ k.status = s /\ k.task = t
  BY <1>4 DEF Flow, FlowType
<1>6. flow' = [flow EXCEPT ![id] = k]
  <2>1. PICK a, b : flow[id] = Flow(a, b)
    BY <1>3 DEF FlowType, Flow
  <2>2. PICK A : A = [flow EXCEPT ![id] = Flow(s, b)]
    OBVIOUS
  <2>3. [flow[id] EXCEPT !.status = s] = Flow(s, b)
    BY <2>1 DEF Flow
  <2>4. [flow EXCEPT ![id].status = s] = A
    BY <2>2, <2>3, Zenon
  <2>5. A[id] = Flow(s, b)
    BY <1>3, <2>2
  <2>6. [A[id] EXCEPT !.task = t] = k
    BY <1>4, <2>5 DEF Flow
  <2>7. [A EXCEPT ![id].task = t] = [A EXCEPT ![id] = k]
    BY <2>6, Zenon
  <2>8. [A EXCEPT ![id] = k] = [flow EXCEPT ![id] = k]
    BY <1>3, <2>2
  <2>9. [flow EXCEPT ![id].status = s, ![id].task = t] = [A EXCEPT ![id].task = t]
    BY <2>4, Zenon
  <2> QED
    BY <1>1, <2>7, <2>8, <2>9
<1> HIDE DEF n
<1>7. /\ flow' = [i \in 1..n |-> IF i = id THEN k ELSE flow[i]]
  BY <1>3, <1>6
<1>8. flow' \in Seq(FlowType) /\ Len(flow') = n /\ DOMAIN flow' = 1..n
      /\ \A i \in 1..n : flow'[i] = IF i = id THEN k ELSE flow[i]
  <2>1. flow' \in [1..n -> FlowType]
    BY <1>3, <1>5, <1>7
  <2> HIDE DEF FlowType
  <2> QED
    BY <1>3, <1>7, <2>1
<1>9. FlowsOk(flow', saved + 1)
  <2>1. 1 \in 1..n /\ \A i \in 2..n : i \in 1..n /\ i # 1
    BY <1>2, <1>3
  <2>2. saved + 1 \in 2..4 /\ saved + 1 >= n + 1
    BY <1>1, <1>2, <1>3
  <2>3. flow'[1].task # "plan"
    BY <1>2, <1>5, <1>8, <2>1
  <2>4. flow'[1].task = "execute" => saved + 1 >= n + 2
    BY <1>2, <1>3
  <2>5. flow'[1].status = "completed" => saved + 1 >= n + 3
    <3>1. CASE id = 1
      <4>1. s = "completed" => saved >= n + 2
        BY <3>1 DEF n
      <4> QED
        BY <1>2, <1>3, <1>5, <1>8, <2>1, <3>1, <4>1
    <3>2. CASE id # 1
      BY <1>2, <1>3, <1>8, <2>1, <3>2
    <3> QED
      BY <3>1, <3>2
  <2>6. ASSUME NEW i \in 2..n
        PROVE  /\ flow'[i].task # "execute" /\ flow'[i].status # "completed"
               /\ flow'[i].status = "awaiting_approval" => saved + 1 >= 4
    <3>1. CASE i = id
      <4>1. id # 1
        BY <2>1, <3>1
      <4>2. t # "execute" /\ s # "completed" /\ (s # "awaiting_approval" \/ saved >= 3)
        BY <4>1
      <4>3. flow'[i] = k
        BY <1>8, <2>1, <3>1
      <4> QED
        BY <1>2, <1>5, <4>2, <4>3
    <3>2. CASE i # id
      <4>1. flow'[i] = flow[i]
        BY <1>8, <2>1, <3>2
      <4> QED
        BY <1>2, <4>1
    <3> QED
      BY <3>1, <3>2
  <2> QED
    BY <1>2, <1>3, <1>8, <2>2, <2>3, <2>4, <2>5, <2>6, Zenon DEF FlowsOk
<1>10. /\ pushing' \in Seq(1..n) /\ listed' \in Seq(1..n) /\ Len(listed') + Len(pushing') = saved + 1
  <2>1. pushing \in Seq(1..n) /\ listed \in Seq(1..n) /\ Len(listed) + Len(pushing) = saved
    BY DEF EngineInv, n
  <2>2. id \in 1..n
    BY <1>3
  <2> QED
    BY <1>1, <1>2, <2>1, <2>2
<1>11. EngineInv'
  <2>1. submit' \in {"idle", "sent", "saving", "answered"} /\ (submit' = "saving" => n >= 2)
    BY DEF EngineInv, n
  <2> QED
    BY <1>1, <1>8, <1>9, <1>10, <2>1, Zenon DEF EngineInv
<1> QED
  BY <1>1, <1>2, <1>3, <1>8, <1>11 DEF n

LEMMA WalletPlans ==
    ASSUME WalletPageInv, NEW id \in DOMAIN flow,
           WalletView!Plan(id) \/ WalletView!Approve(id) \/ WalletView!Execute(id) \/ WalletView!Cancel(id)
    PROVE  WalletPageInv'
<1>0. /\ EngineInv /\ (app = "consumer" => submit = "idle")
      /\ flow \in Seq(FlowType) /\ Len(flow) >= 1 /\ saved \in 2..4 /\ saved >= Len(flow) + 1 /\ funds \in Nat
  BY DEF WalletPageInv, EngineInv, FlowsOk, BrowserInv
<1>1. Len(flow) \in Nat /\ DOMAIN flow = 1..Len(flow) /\ flow[id] \in FlowType
  <2> HIDE DEF FlowType
  <2> QED
    BY <1>0
<1>2. /\ id = 1 => /\ flow[id].task # "plan"
                   /\ flow[id].task = "execute" => saved >= Len(flow) + 2
      /\ id # 1 => /\ flow[id].task # "execute" /\ saved >= 3
                   /\ flow[id].status = "awaiting_approval" => saved >= 4
  <2>1. id # 1 => id \in 2..Len(flow) /\ saved >= 3
    BY <1>0, <1>1
  <2> QED
    BY <1>0, <2>1, Zenon DEF EngineInv, FlowsOk
<1>3. ASSUME NEW s \in WalletView!Status, NEW t \in {"plan", "execute", "none"}, WalletView!Set(id, s, t),
             funds' \in Nat, submit' = submit, WalletView!UnchangedPage,
             id = 1 => t # "plan" /\ (t # "execute" \/ saved >= Len(flow) + 1) /\ (s # "completed" \/ saved >= Len(flow) + 2),
             id # 1 => t # "execute" /\ s # "completed" /\ (s # "awaiting_approval" \/ saved >= 3)
      PROVE  WalletPageInv'
  <2>1. EngineInv' /\ Len(flow) <= Len(flow') /\ saved <= saved'
    BY <1>0, <1>3, FlowSet
  <2>2. WalletUnseen
    BY <1>3 DEF WalletView!UnchangedPage, WalletView!viewVars, WalletUnseen
  <2>3. app = "consumer" => submit' = "idle"
    BY <1>0, <1>3
  <2> QED
    BY <2>1, <2>2, <2>3, WalletEngine
<1>4. CASE WalletView!Plan(id)
  <2>1. PICK s \in {"awaiting_approval", "failed"} : WalletView!Set(id, s, "none")
    BY <1>4 DEF WalletView!Plan
  <2>2. flow[id].task = "plan" /\ funds' = funds /\ submit' = submit /\ WalletView!UnchangedPage
    BY <1>4 DEF WalletView!Plan
  <2>3. id # 1 /\ s \in WalletView!Status /\ "none" \in {"plan", "execute", "none"} /\ funds' \in Nat
    BY <1>0, <1>2, <2>2 DEF WalletView!Status
  <2>4. "none" # "execute" /\ s # "completed" /\ (s # "awaiting_approval" \/ saved >= 3)
    BY <1>2, <2>3
  <2> QED
    BY <1>3, <2>1, <2>2, <2>3, <2>4
<1>5. CASE WalletView!Approve(id)
  <2>1. /\ flow[id].status = "awaiting_approval" /\ WalletView!Set(id, "approved", "execute")
        /\ funds' = funds /\ submit' = submit /\ WalletView!UnchangedPage
    BY <1>5 DEF WalletView!Approve
  <2>2. saved < 4
    BY <2>1 DEF WalletView!Set, WalletView!Save
  <2>3. id = 1
    BY <1>0, <1>2, <2>1, <2>2
  <2>4. "approved" \in WalletView!Status /\ "execute" \in {"plan", "execute", "none"} /\ funds' \in Nat
    BY <1>0, <2>1 DEF WalletView!Status
  <2>5. "execute" # "plan" /\ saved >= Len(flow) + 1 /\ "approved" # "completed"
    BY <1>0
  <2> QED
    BY <1>3, <2>1, <2>3, <2>4, <2>5
<1>6. CASE WalletView!Execute(id)
  <2>1. flow[id].task = "execute" /\ submit' = submit /\ WalletView!UnchangedPage
    BY <1>6 DEF WalletView!Execute
  <2>2. PICK s \in {"failed", "completed"} : WalletView!Set(id, s, "none") /\ funds' \in Nat
    <3>1. (WalletView!Set(id, "failed", "none") /\ funds' = funds)
            \/ (funds >= 1 /\ WalletView!Set(id, "completed", "none") /\ funds' = funds - 1)
      BY <1>6 DEF WalletView!Execute
    <3> QED
      BY <1>0, <3>1
  <2>3. id = 1 /\ saved >= Len(flow) + 2
    BY <1>2, <2>1
  <2>4. s \in WalletView!Status /\ "none" \in {"plan", "execute", "none"} /\ "none" # "plan" /\ "none" # "execute"
    BY DEF WalletView!Status
  <2> QED
    BY <1>3, <2>1, <2>2, <2>3, <2>4
<1>7. CASE WalletView!Cancel(id)
  <2>1. PICK t : t = flow[id].task
    OBVIOUS
  <2>2. WalletView!Set(id, "cancelled", t) /\ funds' = funds /\ submit' = submit /\ WalletView!UnchangedPage
    BY <1>7, <2>1 DEF WalletView!Cancel
  <2>3. t \in {"plan", "execute", "none"} /\ "cancelled" \in WalletView!Status /\ funds' \in Nat
    BY <1>0, <1>1, <2>1, <2>2 DEF FlowType, WalletView!Status
  <2>4. id = 1 => t # "plan" /\ saved >= Len(flow) + 1
    BY <1>0, <1>2, <2>1
  <2>5. id # 1 => t # "execute"
    BY <1>2, <2>1
  <2>6. "cancelled" # "completed" /\ "cancelled" # "awaiting_approval"
    OBVIOUS
  <2> QED
    BY <1>3, <2>2, <2>3, <2>4, <2>5, <2>6
<1> QED
  BY <1>4, <1>5, <1>6, <1>7

LEMMA WalletCreates ==
    ASSUME WalletPageInv, WalletView!CreateWorkflow PROVE WalletPageInv'
<1>0. /\ submit = "sent" /\ submit' = "saving" /\ saved < 4 /\ saved' = saved + 1 /\ funds' = funds
      /\ pushing' = Append(pushing, Len(flow) + 1) /\ listed' = listed /\ WalletView!UnchangedPage
      /\ flow' = Append(flow, [status |-> "planning", task |-> "none"])
  BY DEF WalletView!CreateWorkflow, WalletView!Save
<1> DEFINE n == Len(flow)
<1>1. /\ flow \in Seq(FlowType) /\ n >= 1 /\ saved \in 2..4 /\ saved >= n + 1 /\ flow[1].task # "plan"
      /\ flow[1].task = "execute" => saved >= n + 2
      /\ flow[1].status = "completed" => saved >= n + 3
      /\ \A i \in 2..n : /\ flow[i].task # "execute" /\ flow[i].status # "completed"
                         /\ flow[i].status = "awaiting_approval" => saved >= 4
  BY DEF WalletPageInv, EngineInv, FlowsOk
<1>2. PICK k : k = Flow("planning", "none")
  OBVIOUS
<1>3. k \in FlowType /\ k.status = "planning" /\ k.task = "none" /\ flow' = Append(flow, k)
  BY <1>0, <1>2 DEF Flow, FlowType, WalletView!Status
<1> HIDE DEF FlowType
<1>4. /\ n \in Nat /\ flow' \in Seq(FlowType) /\ Len(flow') = n + 1 /\ flow'[n + 1] = k
      /\ \A i \in 1..n : flow'[i] = flow[i]
  BY <1>1, <1>3
<1> HIDE DEF n
<1>5. FlowsOk(flow', saved + 1)
  <2>1. flow'[1] = flow[1] /\ saved + 1 \in 2..4 /\ saved + 1 >= (n + 1) + 1 /\ n + 1 >= 1
    BY <1>0, <1>1, <1>4
  <2>2. flow[1].task = "execute" => saved + 1 >= (n + 1) + 2
    BY <1>1, <1>4
  <2>3. flow[1].status = "completed" => saved + 1 >= (n + 1) + 3
    BY <1>1, <1>4
  <2>4. ASSUME NEW i \in 2..(n + 1)
        PROVE  /\ flow'[i].task # "execute" /\ flow'[i].status # "completed"
               /\ flow'[i].status = "awaiting_approval" => saved + 1 >= 4
    <3>1. CASE i = n + 1
      BY <1>3, <1>4, <3>1
    <3>2. CASE i # n + 1
      <4>1. i \in 1..n /\ i \in 2..n
        BY <1>4, <3>2
      <4>2. flow[i].status = "awaiting_approval" => saved + 1 >= 4
        BY <1>1, <4>1
      <4> QED
        BY <1>1, <1>4, <4>1, <4>2
    <3> QED
      BY <3>1, <3>2
  <2> QED
    BY <1>1, <1>4, <2>1, <2>2, <2>3, <2>4, Zenon DEF FlowsOk
<1>6. /\ pushing' \in Seq(1..(n + 1)) /\ listed' \in Seq(1..(n + 1)) /\ Len(listed') + Len(pushing') = saved + 1
  <2>1. pushing \in Seq(1..n) /\ listed \in Seq(1..n) /\ Len(listed) + Len(pushing) = saved
    BY DEF WalletPageInv, EngineInv, n
  <2>2. n + 1 \in 1..(n + 1) /\ \A i \in 1..n : i \in 1..(n + 1)
    BY <1>4
  <2>3. PICK S : S = 1..(n + 1)
    OBVIOUS
  <2>4. pushing \in Seq(S) /\ listed \in Seq(S) /\ n + 1 \in S
    <3>1. PICK R : R = 1..n
      OBVIOUS
    <3>2. pushing \in Seq(R) /\ listed \in Seq(R) /\ R \subseteq S
      BY <2>1, <2>2, <2>3, <3>1
    <3>3. \A q \in Seq(R) : q \in Seq(S)
      BY <3>2
    <3> QED
      BY <2>2, <2>3, <3>2, <3>3
  <2>5. pushing' \in Seq(S) /\ listed' \in Seq(S) /\ Len(pushing') = Len(pushing) + 1 /\ Len(listed') = Len(listed)
    BY <1>0, <2>4 DEF n
  <2>6. Len(pushing) \in Nat /\ Len(listed) \in Nat
    BY <2>1
  <2> QED
    BY <2>1, <2>3, <2>5, <2>6
<1>7. EngineInv'
  <2>1. funds' \in Nat
    BY <1>0 DEF WalletPageInv, EngineInv
  <2>2. submit' \in {"idle", "sent", "saving", "answered"} /\ n + 1 >= 2
    BY <1>0, <1>1, <1>4
  <2> QED
    BY <1>0, <1>4, <1>5, <1>6, <2>1, <2>2, Zenon DEF EngineInv
<1>8. Len(flow) <= Len(flow') /\ saved <= saved'
  BY <1>0, <1>1, <1>4 DEF n
<1>9. WalletUnseen
  BY <1>0 DEF WalletView!UnchangedPage, WalletView!viewVars, WalletUnseen
<1>10. app = "consumer" => submit' = "idle"
  BY <1>0 DEF WalletPageInv, BrowserInv
<1> QED
  BY <1>7, <1>8, <1>9, <1>10, WalletEngine

LEMMA WalletSaves ==
    ASSUME WalletPageInv, WalletView!SaveWorkflow PROVE WalletPageInv'
<1> DEFINE n == Len(flow)
           id == Head(pushing)
<1>0. /\ pushing # <<>> /\ pushing' = Tail(pushing) /\ funds' = funds /\ saved' = saved /\ WalletView!UnchangedPage
      /\ listed' = SubSeq(<<id>> \o listed, 1, IF Len(listed) < 4 THEN Len(listed) + 1 ELSE 4)
      /\ \/ submit = "saving" /\ id = n /\ submit' = "answered" /\ flow' = [flow EXCEPT ![id].task = "plan"]
         \/ submit' = submit /\ flow' = flow
  BY DEF WalletView!SaveWorkflow
<1>1. /\ flow \in Seq(FlowType) /\ n >= 1 /\ saved \in 2..4 /\ saved >= n + 1 /\ flow[1].task # "plan"
      /\ flow[1].task = "execute" => saved >= n + 2
      /\ flow[1].status = "completed" => saved >= n + 3
      /\ \A i \in 2..n : /\ flow[i].task # "execute" /\ flow[i].status # "completed"
                         /\ flow[i].status = "awaiting_approval" => saved >= 4
  BY DEF WalletPageInv, EngineInv, FlowsOk
<1>2. /\ pushing \in Seq(1..n) /\ listed \in Seq(1..n) /\ Len(listed) + Len(pushing) = saved
      /\ submit \in {"idle", "sent", "saving", "answered"} /\ (submit = "saving" => n >= 2) /\ funds \in Nat
  BY DEF WalletPageInv, EngineInv
<1>3. /\ n \in Nat /\ DOMAIN flow = 1..n /\ flow = [i \in 1..n |-> flow[i]] /\ \A i \in 1..n : flow[i] \in FlowType
  <2> HIDE DEF FlowType
  <2> QED
    BY <1>1
<1>4. id \in 1..n /\ Len(pushing) \in Nat \ {0} /\ Len(listed) \in Nat /\ Len(listed) < 4
      /\ Len(Tail(pushing)) = Len(pushing) - 1 /\ Tail(pushing) \in Seq(1..n)
  <2>1. PICK S : S = 1..n
    OBVIOUS
  <2>2. pushing \in Seq(S)
    BY <1>2, <2>1
  <2>3. id \in S /\ Len(pushing) \in Nat \ {0} /\ Len(Tail(pushing)) = Len(pushing) - 1 /\ Tail(pushing) \in Seq(S)
    BY <1>0, <2>2
  <2>4. Len(listed) \in Nat
    BY <1>2
  <2>5. Len(listed) < 4
    BY <1>1, <1>2, <2>3, <2>4
  <2> QED
    BY <2>1, <2>3, <2>4, <2>5
<1>5. listed' \in Seq(1..n) /\ Len(listed') = Len(listed) + 1
  <2>1. PICK S : S = 1..n
    OBVIOUS
  <2>2. PICK q : q = <<id>> \o listed
    OBVIOUS
  <2>3. listed \in Seq(S) /\ id \in S /\ <<id>> \in Seq(S) /\ Len(<<id>>) = 1
    BY <1>2, <1>4, <2>1
  <2>4. q \in Seq(S) /\ Len(q) = Len(listed) + 1
    <3>1. q \in Seq(S) /\ Len(q) = Len(<<id>>) + Len(listed)
      BY <2>2, <2>3, ConcatProperties
    <3> QED
      BY <1>4, <2>3, <3>1
  <2>5. listed' = SubSeq(q, 1, Len(q))
    BY <1>0, <1>4, <2>2, <2>4
  <2>6. \A i \in 1..Len(q) : q[i] \in S
    BY <2>4
  <2>7. SubSeq(q, 1, Len(q)) \in Seq(S) /\ Len(SubSeq(q, 1, Len(q))) = Len(q)
    BY <1>4, <2>4, <2>6
  <2> QED
    BY <2>1, <2>4, <2>5, <2>7
<1> HIDE DEF n
<1>6. /\ FlowsOk(flow', saved) /\ Len(flow') = n /\ submit' \in {"idle", "sent", "saving", "answered"}
      /\ submit' = "saving" => n >= 2
      /\ submit = "idle" => submit' = "idle"
  <2>1. CASE submit' = submit /\ flow' = flow
    BY <1>1, <1>2, <2>1, Zenon DEF FlowsOk, n
  <2>2. CASE submit = "saving" /\ id = n /\ submit' = "answered" /\ flow' = [flow EXCEPT ![id].task = "plan"]
    <3>1. n >= 2 /\ id \in 1..n /\ id # 1
      BY <1>2, <1>3, <2>2
    <3>2. PICK a, b : flow[id] = Flow(a, b)
      BY <1>3, <3>1 DEF FlowType, Flow
    <3>3. PICK k : k = Flow(a, "plan")
      OBVIOUS
    <3>4. k \in FlowType /\ k.status = flow[id].status /\ k.task = "plan"
      BY <1>3, <3>1, <3>2, <3>3 DEF Flow, FlowType
    <3>5. flow' = [flow EXCEPT ![id] = k]
      <4>1. [flow[id] EXCEPT !.task = "plan"] = k
        BY <3>2, <3>3 DEF Flow
      <4> QED
        BY <2>2, <4>1, Zenon
    <3>6. flow' \in Seq(FlowType) /\ Len(flow') = n /\ \A i \in 1..n : flow'[i] = IF i = id THEN k ELSE flow[i]
      <4>1. flow' = [i \in 1..n |-> IF i = id THEN k ELSE flow[i]]
        BY <1>3, <3>5
      <4>2. flow' \in [1..n -> FlowType]
        BY <1>3, <3>4, <4>1
      <4> HIDE DEF FlowType
      <4> QED
        BY <1>3, <4>1, <4>2
    <3>7. flow'[1] = flow[1] /\ \A i \in 2..n : i \in 1..n
      BY <1>1, <1>3, <3>1, <3>6
    <3>8. ASSUME NEW i \in 2..n
          PROVE  /\ flow'[i].task # "execute" /\ flow'[i].status = flow[i].status
      BY <1>1, <3>4, <3>6, <3>7
    <3>9. FlowsOk(flow', saved)
      BY <1>1, <3>6, <3>7, <3>8, Zenon DEF FlowsOk
    <3> QED
      BY <2>2, <3>6, <3>9
  <2> QED
    BY <1>0, <2>1, <2>2
<1>7. EngineInv'
  <2>1. Len(listed') + Len(pushing') = saved
    BY <1>0, <1>2, <1>4, <1>5
  <2> QED
    BY <1>0, <1>2, <1>4, <1>5, <1>6, <2>1, Zenon DEF EngineInv
<1>8. Len(flow) <= Len(flow') /\ saved <= saved'
  BY <1>0, <1>1, <1>3, <1>6 DEF n
<1>9. WalletUnseen
  BY <1>0 DEF WalletView!UnchangedPage, WalletView!viewVars, WalletUnseen
<1>10. app = "consumer" => submit' = "idle"
  BY <1>6 DEF WalletPageInv, BrowserInv
<1> QED
  BY <1>7, <1>8, <1>9, <1>10, WalletEngine

\* What the engine answers for a list
LEMMA ListAnswered ==
    ASSUME EngineInv, NEW limit \in {3, 4} PROVE ListOk(WalletView!UserWorkflows(limit), Len(flow), saved)
<1> DEFINE n == Len(flow)
           m == IF Len(listed) < limit THEN Len(listed) ELSE limit
           T == [id : 1..n, status : WalletView!Status]
<1>1. /\ flow \in Seq(FlowType) /\ n >= 1 /\ saved \in 2..4
      /\ flow[1].status = "completed" => saved >= n + 3
      /\ \A i \in 2..n : flow[i].status # "completed"
      /\ pushing \in Seq(1..n) /\ listed \in Seq(1..n) /\ Len(listed) + Len(pushing) = saved
  BY DEF EngineInv, FlowsOk
<1>2. /\ n \in Nat /\ \A i \in 1..n : flow[i].status \in WalletView!Status
  <2>1. n \in Nat /\ \A i \in 1..n : flow[i] \in FlowType
    <3> HIDE DEF FlowType
    <3> QED
      BY <1>1
  <2> QED
    BY <2>1 DEF FlowType
<1>3. Len(listed) \in Nat /\ m \in Nat /\ m <= Len(listed) /\ \A i \in 1..m : listed[i] \in 1..n
  BY <1>1
<1>4. PICK ids : ids = SubSeq(listed, 1, m)
  OBVIOUS
<1>5. Len(ids) = m /\ DOMAIN ids = 1..m /\ \A i \in 1..m : ids[i] = listed[i]
  <2> HIDE DEF m
  <2>1. ids \in Seq(1..n) /\ Len(ids) = (IF 1 <= m THEN m - 1 + 1 ELSE 0) /\ \A i \in 1..(m - 1 + 1) : ids[i] = listed[1 + i - 1]
    BY <1>3, <1>4, SubSeqProperties
  <2>2. Len(ids) = m /\ m - 1 + 1 = m
    BY <1>3, <2>1
  <2>3. \A i \in 1..m : 1 + i - 1 = i
    OBVIOUS
  <2> QED
    BY <2>1, <2>2, <2>3
<1>6. PICK l : l = [i \in DOMAIN ids |-> [id |-> ids[i], status |-> flow[ids[i]].status]]
  OBVIOUS
<1>7. WalletView!UserWorkflows(limit) = [list |-> l, version |-> saved, whole |-> pushing = <<>> /\ saved <= limit]
  BY <1>4, <1>6 DEF WalletView!UserWorkflows
<1> HIDE DEF m, n
<1>8. l \in Seq(T) /\ DOMAIN l = 1..m /\ \A i \in 1..m : l[i].id = listed[i] /\ l[i].status = flow[listed[i]].status
  <2>1. l \in [1..m -> T] /\ \A i \in 1..m : l[i].id = listed[i] /\ l[i].status = flow[listed[i]].status
    BY <1>2, <1>3, <1>5, <1>6
  <2> HIDE DEF T
  <2> QED
    BY <1>3, <2>1
<1>9. PICK x : x = WalletView!UserWorkflows(limit)
  OBVIOUS
<1>10. x \in ListType(n) /\ x.version = saved /\ x.list = l /\ x.whole = (pushing = <<>> /\ saved <= limit)
  <2>1. saved \in Nat
    BY <1>1
  <2>2. PICK w \in BOOLEAN : w = (pushing = <<>> /\ saved <= limit)
    OBVIOUS
  <2>3. x = [list |-> l, version |-> saved, whole |-> w]
    BY <1>7, <1>9, <2>2, Zenon
  <2>4. x \in ListType(n)
    <3>1. PICK L : L = Seq(T)
      OBVIOUS
    <3>2. l \in L
      BY <1>8, <3>1
    <3>3. x \in [list : L, version : Nat, whole : BOOLEAN]
      BY <2>1, <2>3, <3>2, Zenon
    <3> QED
      BY <3>1, <3>3 DEF ListType
  <2> QED
    BY <2>2, <2>3, <2>4, Zenon
<1>11. SavesCount(x)
  <2> DEFINE done == {l[i].id : i \in {j \in DOMAIN l : l[j].status = "completed"}}
             these == {i \in DOMAIN l : l[i].status = "completed"}
  <2>0. SUFFICES ASSUME x.whole PROVE Cardinality(these) >= 4 * Cardinality(done)
    <3>1. WalletView!Stats(l).completed = Cardinality(these) /\ WalletView!Cardinality(done) = Cardinality(done)
      BY DEF WalletView!Stats, WalletView!Count, WalletView!Cardinality, Cardinality
    <3> QED
      BY <1>10, <3>1, Zenon DEF SavesCount
  <2>1. IsFiniteSet(1..m) /\ Cardinality(1..m) = m
    <3>1. 1 \in Int /\ m \in Int
      BY <1>3
    <3>2. IsFiniteSet(1..m) /\ Cardinality(1..m) = IF 1 > m THEN 0 ELSE m - 1 + 1
      BY <3>1, FS_Interval
    <3> QED
      BY <1>3, <3>2
  <2>2. IsFiniteSet(these) /\ Cardinality(these) \in Nat
    <3>1. these \subseteq 1..m
      BY <1>8
    <3> QED
      BY <2>1, <3>1, FS_Subset, FS_CardinalityType
  <2>3. CASE these = {}
    <3>1. done = {}
      BY <2>3
    <3> HIDE DEF done, these
    <3> QED
      BY <2>3, <3>1, FS_EmptySet
  <2>4. CASE these # {}
    <3>1. PICK i \in 1..m : l[i].status = "completed"
      BY <1>8, <2>4
    <3>2. listed[i] = 1 /\ flow[1].status = "completed"
      <4>1. listed[i] \in 1..n /\ flow[listed[i]].status = "completed"
        BY <1>3, <1>8, <3>1
      <4>2. listed[i] # 1 => listed[i] \in 2..n
        BY <1>2, <4>1
      <4>3. \A j \in 2..n : flow[j].status # "completed"
        BY <1>1
      <4>4. listed[i] = 1
        BY <4>1, <4>2, <4>3
      <4> QED
        BY <4>1, <4>4
    <3>3. n = 1 /\ saved = 4 /\ limit = 4 /\ m = 4
      <4>1. pushing = <<>> /\ saved <= limit
        BY <1>10, <2>0
      <4>2. n = 1 /\ saved = 4
        BY <1>1, <1>2, <3>2
      <4>3. Len(listed) = 4
        BY <1>1, <4>1, <4>2
      <4>4. limit = 4
        BY <4>1, <4>2
      <4> QED
        BY <4>2, <4>3, <4>4 DEF m
    <3>4. \A j \in 1..m : l[j].id = 1 /\ l[j].status = "completed"
      <4>1. \A j \in 1..m : listed[j] = 1
        BY <1>3, <3>3
      <4> QED
        BY <1>8, <3>2, <4>1
    <3>5. these = 1..m
      BY <1>8, <3>4
    <3>6. done = {1}
      <4>1. \A i2 \in these : l[i2].id = 1
        BY <3>4, <3>5
      <4>2. 1 \in these
        BY <3>3, <3>5
      <4>3. these = {j \in DOMAIN l : l[j].status = "completed"}
        OBVIOUS
      <4> HIDE DEF these
      <4> QED
        BY <4>1, <4>2, <4>3
    <3>7. Cardinality(done) = 1 /\ Cardinality(these) = 4
      BY <2>1, <3>3, <3>5, <3>6, FS_Singleton
    <3> HIDE DEF these, done
    <3> QED
      BY <3>7
  <2> QED
    BY <2>3, <2>4
<1>12. x.version <= saved
  BY <1>1, <1>10
<1> QED
  BY <1>9, <1>10, <1>11, <1>12 DEF ListOk, n

-----------------------------------------------------------------------------
\* The pages' requests

LEMMA WithNothing ==
    ASSUME NEW n \in Nat, NEW v \in Nat
    PROVE  /\ ListOk(WalletView!Nothing, n, v)
           /\ \A a \in {"info", "balance", "history", "list"} :
                 FetchOk(WalletView!Request(a), n, v) /\ WalletView!Request(a).what = a /\ WalletView!Request(a).pc = "sent"
<1>1. ListOk(WalletView!Nothing, n, v)
  <2>1. <<>> \in Seq([id : 1..n, status : WalletView!Status])
    OBVIOUS
  <2>2. PICK L : L = Seq([id : 1..n, status : WalletView!Status])
    OBVIOUS
  <2>3. WalletView!Nothing \in [list : L, version : Nat, whole : BOOLEAN]
    BY <2>1, <2>2 DEF WalletView!Nothing
  <2>4. WalletView!Nothing.version = 0 /\ ~WalletView!Nothing.whole
    BY DEF WalletView!Nothing
  <2> QED
    BY <2>2, <2>3, <2>4 DEF ListOk, ListType, SavesCount
<1>2. ASSUME NEW a \in {"info", "balance", "history", "list"}
      PROVE  FetchOk(WalletView!Request(a), n, v) /\ WalletView!Request(a).what = a /\ WalletView!Request(a).pc = "sent"
  <2>1. WalletView!Nothing \in ListType(n)
    BY <1>1 DEF ListOk
  <2>2. WalletView!NoBalance \in BalanceType
    BY DEF WalletView!NoBalance, BalanceType
  <2>3. PICK x : x = WalletView!Nothing
    OBVIOUS
  <2>4. PICK L : L = ListType(n)
    OBVIOUS
  <2>5. PICK b : b = WalletView!NoBalance
    OBVIOUS
  <2>6. WalletView!Request(a) = [what |-> a, pc |-> "sent", value |-> x, balance |-> b]
    BY <2>3, <2>5 DEF WalletView!Request
  <2>7. WalletView!Request(a) \in FetchType(n)
    BY <2>1, <2>2, <2>3, <2>4, <2>5, <2>6 DEF FetchType
  <2> QED
    BY <1>1, <2>3, <2>6, <2>7 DEF FetchOk
<1> QED
  BY <1>1, <1>2

LEMMA FetchesShown ==
    ASSUME NEW n \in Nat, NEW v \in Nat, NEW q \in Seq(FetchType(n)),
           \A i \in DOMAIN q : FetchOk(q[i], n, v) /\ q[i].what = "balance",
           NEW r, r = <<>> \/ \E a \in {"info", "balance", "history", "list"} : r = <<WalletView!Request(a)>>,
           Len(q \o r) <= 2
    PROVE  FetchesOk(q \o r, n, v, FALSE, 0)
<1> DEFINE S == FetchType(n)
<1>1. r \in Seq(S) /\ Len(r) \in Nat /\ \A i \in 1..Len(r) : i = 1 /\ FetchOk(r[i], n, v) /\ r[i].pc = "sent"
  <2>1. CASE r = <<>>
    BY <2>1
  <2>2. ASSUME NEW a \in {"info", "balance", "history", "list"}, r = <<WalletView!Request(a)>>
        PROVE  r \in Seq(S) /\ Len(r) \in Nat /\ \A i \in 1..Len(r) : i = 1 /\ FetchOk(r[i], n, v) /\ r[i].pc = "sent"
    <3>1. FetchOk(WalletView!Request(a), n, v) /\ WalletView!Request(a).pc = "sent"
      BY WithNothing
    <3>2. PICK x : x = WalletView!Request(a)
      OBVIOUS
    <3>3. x \in S
      BY <3>1, <3>2 DEF FetchOk
    <3> HIDE DEF S
    <3> QED
      BY <2>2, <3>1, <3>2, <3>3
  <2> QED
    BY <2>1, <2>2
<1> HIDE DEF S
<1>2. q \in Seq(S) /\ Len(q) \in Nat /\ DOMAIN q = 1..Len(q)
  BY DEF S
<1>3. \A A, B \in Seq(S) : /\ A \o B \in Seq(S) /\ Len(A \o B) = Len(A) + Len(B)
                              /\ \A i \in 1..(Len(A) + Len(B)) : (A \o B)[i] = IF i <= Len(A) THEN A[i] ELSE B[i - Len(A)]
  BY ConcatProperties, Zenon
<1>4. PICK w : w = q \o r
  OBVIOUS
<1>5a. PICK m : m = Len(q)
  OBVIOUS
<1>5b. PICK e : e = Len(r)
  OBVIOUS
<1>5. m = Len(q) /\ e = Len(r) /\ m \in Nat /\ e \in Nat
  BY <1>1, <1>2, <1>5a, <1>5b
<1>6. /\ w \in Seq(S) /\ DOMAIN w = 1..(m + e) /\ Len(w) <= 2
      /\ \A i \in 1..(m + e) : w[i] = IF i <= m THEN q[i] ELSE r[i - m]
  BY <1>1, <1>2, <1>3, <1>4, <1>5
<1>7. ASSUME NEW i \in 1..(m + e)
      PROVE  /\ FetchOk(w[i], n, v)
             /\ i <= m => w[i].what = "balance"
             /\ i > m => i = m + 1 /\ w[i].pc = "sent"
  <2>1. CASE i <= m
    <3>1. i \in DOMAIN q /\ w[i] = q[i]
      BY <1>2, <1>5, <1>6, <2>1
    <3>2. FetchOk(q[i], n, v) /\ q[i].what = "balance"
      BY <3>1
    <3>3. ~(i > m)
      BY <1>5, <2>1
    <3> QED
      BY <3>1, <3>2, <3>3, Zenon
  <2>2. CASE i > m
    <3>1. PICK d \in 1..e : d = i - m
      BY <1>5, <2>2
    <3>2. w[i] = r[d] /\ d = 1 /\ FetchOk(r[d], n, v) /\ r[d].pc = "sent"
      BY <1>1, <1>5, <1>6, <2>2, <3>1
    <3>3. i = m + 1
      BY <1>5, <2>2, <3>1, <3>2
    <3> QED
      BY <1>5, <2>2, <3>2, <3>3
  <2> QED
    BY <1>5, <2>1, <2>2
<1>8. AskedInTurn(w, FALSE, 0)
  <2>1. \A i \in 1..(m + e) : w[i].what = "list" => i = m + 1 /\ w[i].pc # "ok"
    <3>1. \A i \in 1..(m + e) : i <= m \/ i > m
      BY <1>5
    <3> QED
      BY <1>7, <3>1
  <2>2. DOMAIN w = 1..(m + e)
    BY <1>6
  <2>3. \A i, j \in DOMAIN w : w[i].what = "list" /\ w[j].what = "list" => i = j
    BY <2>1, <2>2
  <2>4. \A i \in DOMAIN w : w[i].what = "list" /\ w[i].pc = "ok" => w[i].value.version >= 0
    BY <2>1, <2>2, Zenon
  <2> QED
    BY <2>3, <2>4, Zenon DEF AskedInTurn
<1> QED
  BY <1>4, <1>6, <1>7, <1>8, Zenon DEF FetchesOk, S

LEMMA WaitingOk ==
    ASSUME NEW n \in Nat, NEW v \in Nat, FetchesOk(fetches, n, v, twice, latest)
    PROVE  /\ WalletView!Waiting \in Seq(FetchType(n))
           /\ \A i \in DOMAIN WalletView!Waiting :
                 FetchOk(WalletView!Waiting[i], n, v) /\ WalletView!Waiting[i].what = "balance"
<1> DEFINE S == {i \in DOMAIN fetches : fetches[i].what = "balance"}
           T == FetchType(n)
<1>1. fetches \in Seq(T) /\ \A i \in DOMAIN fetches : FetchOk(fetches[i], n, v)
  BY DEF FetchesOk
<1> HIDE DEF T
<1>2. Len(fetches) \in Nat /\ DOMAIN fetches = 1..Len(fetches)
  BY <1>1
<1>3. IsFiniteSet(S)
  <2>1. 1 \in Int /\ Len(fetches) \in Int
    BY <1>2
  <2>2. IsFiniteSet(1..Len(fetches))
    BY <2>1, FS_Interval
  <2> QED
    BY <1>2, <2>2, FS_Subset
<1>4. PICK ids : ids = WalletView!SetToSeq(S)
  OBVIOUS
<1>5. PICK m \in Nat : ids \in [1..m -> S]
  <2>1. PICK k \in Nat : ExistsBijection(1..k, S)
    BY <1>3, FS_NatBijection
  <2>2. Cardinality(S) = k
    BY <2>1, FS_CountingElements
  <2>3. PICK f : f \in [1..k -> S] /\ IsInjective(f)
    BY <2>1 DEF ExistsBijection, Bijection, Injection
  <2>4. WalletView!IsInjective(f)
    BY <2>3 DEF IsInjective, WalletView!IsInjective
  <2>5. WalletView!Cardinality(S) = k
    BY <2>2 DEF WalletView!Cardinality, Cardinality
  <2> HIDE DEF S
  <2>6. ids = CHOOSE g \in [1..k -> S] : WalletView!IsInjective(g)
    BY <1>4, <2>5 DEF WalletView!SetToSeq
  <2>7. ids \in [1..k -> S]
    BY <2>3, <2>4, <2>6
  <2> QED
    BY <2>7
<1>6. WalletView!Waiting = [j \in DOMAIN ids |-> fetches[ids[j]]]
  BY <1>4 DEF WalletView!Waiting
<1>7. PICK w : w = WalletView!Waiting
  OBVIOUS
<1>8. w \in [1..m -> T] /\ \A j \in 1..m : ids[j] \in S /\ w[j] = fetches[ids[j]]
  <2>1. \A j \in 1..m : ids[j] \in S
    BY <1>5
  <2>2. \A i \in S : fetches[i] \in T
    BY <1>1
  <2> QED
    BY <1>5, <1>6, <1>7, <2>1, <2>2
<1>9. \A j \in 1..m : FetchOk(w[j], n, v) /\ w[j].what = "balance"
  BY <1>1, <1>8
<1>10. w \in Seq(T) /\ DOMAIN w = 1..m
  BY <1>8
<1> QED
  BY <1>7, <1>9, <1>10 DEF T

LEMMA FetchAdded ==
    ASSUME NEW n \in Nat, NEW v \in Nat, NEW q, NEW tw, NEW la, FetchesOk(q, n, v, tw, la), Len(q) < 2,
           NEW f, FetchOk(f, n, v), f.pc = "sent", NEW t2 \in BOOLEAN, NEW l2, q = <<>> \/ t2
    PROVE  FetchesOk(Append(q, f), n, v, t2, l2)
<1> DEFINE S == FetchType(n)
<1>1. q \in Seq(S) /\ (\A i \in DOMAIN q : FetchOk(q[i], n, v)) /\ f \in S
  BY DEF FetchesOk, FetchOk
<1> HIDE DEF S
<1>2. PICK w : w = Append(q, f)
  OBVIOUS
<1>3. PICK m : m = Len(q)
  OBVIOUS
<1>4. /\ m \in Nat /\ m < 2 /\ DOMAIN q = 1..m /\ w \in Seq(S) /\ Len(w) = m + 1 /\ DOMAIN w = 1..(m + 1)
      /\ w[m + 1] = f /\ \A i \in 1..m : w[i] = q[i]
  BY <1>1, <1>2, <1>3
<1>5. \A i \in 1..(m + 1) : i = m + 1 \/ i \in 1..m
  BY <1>4
<1>6. \A i \in DOMAIN w : FetchOk(w[i], n, v)
  <2> SUFFICES ASSUME NEW i \in 1..(m + 1) PROVE FetchOk(w[i], n, v)
    BY <1>4
  <2>1. CASE i = m + 1
    BY <1>4, <2>1
  <2>2. CASE i \in 1..m
    <3>1. FetchOk(q[i], n, v)
      BY <1>1, <1>4, <2>2
    <3>2. w[i] = q[i]
      BY <1>4, <2>2
    <3> QED
      BY <3>1, <3>2
  <2> QED
    BY <1>5, <2>1, <2>2
<1>7. AskedInTurn(w, t2, l2)
  <2>1. CASE t2
    BY <2>1, Zenon DEF AskedInTurn
  <2>2. CASE q = <<>>
    <3>1. m = 0
      BY <1>3, <2>2
    <3>2. \A i \in DOMAIN w : i = 1 /\ w[i].pc = "sent"
      BY <1>4, <3>1
    <3>3. \A i, j \in DOMAIN w : i = j
      BY <3>2
    <3> QED
      BY <3>2, <3>3 DEF AskedInTurn
  <2> QED
    BY <2>1, <2>2
<1>8. Len(w) <= 2
  BY <1>4
<1> QED
  BY <1>2, <1>4, <1>6, <1>7, <1>8, Zenon DEF FetchesOk, S

LEMMA FetchReplaced ==
    ASSUME NEW n \in Nat, NEW v \in Nat, NEW q, NEW tw, NEW la, FetchesOk(q, n, v, tw, la),
           NEW i \in DOMAIN q, NEW g, FetchOk(g, n, v),
           g.what = "list" => q[i].what = "list" /\ (g.pc = "ok" => g.value.version >= la)
    PROVE  FetchesOk([q EXCEPT ![i] = g], n, v, tw, la)
<1> DEFINE S == FetchType(n)
<1>1. q \in Seq(S) /\ (\A k \in DOMAIN q : FetchOk(q[k], n, v)) /\ g \in S /\ Len(q) <= 2 /\ AskedInTurn(q, tw, la)
  BY DEF FetchesOk, FetchOk
<1> HIDE DEF S
<1>2. PICK w : w = [q EXCEPT ![i] = g]
  OBVIOUS
<1>3. PICK D : D = DOMAIN q
  OBVIOUS
<1>4. /\ w \in Seq(S) /\ Len(w) <= 2 /\ DOMAIN w = D /\ i \in D /\ w[i] = g /\ \A k \in D : k # i => w[k] = q[k]
  BY <1>1, <1>2, <1>3
<1>5. \A k \in D : FetchOk(w[k], n, v)
  <2> SUFFICES ASSUME NEW k \in D PROVE FetchOk(w[k], n, v)
    OBVIOUS
  <2>1. CASE k = i
    BY <1>4, <2>1
  <2>2. CASE k # i
    <3>1. FetchOk(q[k], n, v)
      BY <1>1, <1>3
    <3>2. w[k] = q[k]
      BY <1>4, <2>2
    <3> QED
      BY <3>1, <3>2
  <2> QED
    BY <2>1, <2>2
<1>6. AskedInTurn(w, tw, la)
  <2>1. CASE tw
    BY <2>1, Zenon DEF AskedInTurn
  <2>2. CASE ~tw
    <3>1. /\ \A a, b \in D : q[a].what = "list" /\ q[b].what = "list" => a = b
          /\ \A a \in D : q[a].what = "list" /\ q[a].pc = "ok" => q[a].value.version >= la
      BY <1>1, <1>3, <2>2 DEF AskedInTurn
    <3>2. \A a \in D : /\ w[a].what = "list" => q[a].what = "list"
                       /\ w[a].what = "list" /\ w[a].pc = "ok" => w[a].value.version >= la
      BY <1>4, <3>1
    <3>3. \A a, b \in D : w[a].what = "list" /\ w[b].what = "list" => a = b
      BY <3>1, <3>2
    <3> QED
      BY <1>4, <3>2, <3>3, Zenon DEF AskedInTurn
  <2> QED
    BY <2>1, <2>2
<1> QED
  BY <1>2, <1>4, <1>5, <1>6, Zenon DEF FetchesOk, S

LEMMA FetchTaken ==
    ASSUME NEW n \in Nat, NEW v \in Nat, NEW q, NEW tw, NEW la, FetchesOk(q, n, v, tw, la),
           NEW i \in DOMAIN q, NEW l2, q[i].what = "list" \/ l2 = la
    PROVE  FetchesOk(SubSeq(q, 1, i - 1) \o SubSeq(q, i + 1, Len(q)), n, v, tw, l2)
<1> DEFINE S == FetchType(n)
<1>1. q \in Seq(S) /\ (\A k \in DOMAIN q : FetchOk(q[k], n, v)) /\ Len(q) <= 2 /\ AskedInTurn(q, tw, la)
  BY DEF FetchesOk
<1> HIDE DEF S
<1>2. PICK m : m = Len(q)
  OBVIOUS
<1>3. m \in Nat /\ m <= 2 /\ DOMAIN q = 1..m /\ i \in 1..m
  BY <1>1, <1>2
<1>4. PICK A, B : A = SubSeq(q, 1, i - 1) /\ B = SubSeq(q, i + 1, Len(q))
  OBVIOUS
<1>5. /\ A \in Seq(S) /\ Len(A) = i - 1 /\ \A j \in 1..(i - 1) : A[j] = q[j]
  BY <1>1, <1>2, <1>3, <1>4
<1>6. B \in Seq(S) /\ Len(B) = m - i /\ \A j \in 1..(m - i) : B[j] = q[j + i]
  <2>1. \A j \in (i + 1)..m : q[j] \in S
    BY <1>1, <1>2, <1>3
  <2>2. i + 1 \in Int /\ m \in Int
    BY <1>3
  <2>3. B = SubSeq(q, i + 1, m)
    BY <1>2, <1>4
  <2>4. /\ B \in Seq(S) /\ Len(B) = (IF i + 1 <= m THEN m - (i + 1) + 1 ELSE 0)
        /\ \A j \in 1..(m - (i + 1) + 1) : B[j] = q[(i + 1) + j - 1]
    BY <2>1, <2>2, <2>3, SubSeqProperties
  <2>5. Len(B) = m - i /\ m - (i + 1) + 1 = m - i
    BY <1>3, <2>4
  <2>6. \A j \in 1..(m - i) : (i + 1) + j - 1 = j + i
    BY <1>3
  <2> QED
    BY <2>4, <2>5, <2>6, Zenon
<1>7. PICK w : w = A \o B
  OBVIOUS
<1>8. w \in Seq(S) /\ Lacks(w, q, m, i)
  BY <1>3, <1>5, <1>6, <1>7, Spliced
<1>9. /\ DOMAIN w = 1..(m - 1) /\ \A j \in 1..(m - 1) : \E k \in 1..m : k # i /\ w[j] = q[k]
  BY <1>8 DEF Lacks
<1>10. Len(w) <= 2 /\ \A a, b \in DOMAIN w : a = b
  BY <1>3, <1>8, <1>9
<1>11. \A j \in DOMAIN w : FetchOk(w[j], n, v)
  BY <1>1, <1>3, <1>9
<1>12. AskedInTurn(w, tw, l2)
  <2>1. CASE tw
    BY <2>1, Zenon DEF AskedInTurn
  <2>2. CASE ~tw
    <3>1. /\ \A a, b \in 1..m : q[a].what = "list" /\ q[b].what = "list" => a = b
          /\ \A a \in 1..m : q[a].what = "list" /\ q[a].pc = "ok" => q[a].value.version >= la
      BY <1>1, <1>3, <2>2 DEF AskedInTurn
    <3>2. ASSUME NEW a \in DOMAIN w, w[a].what = "list", w[a].pc = "ok" PROVE w[a].value.version >= l2
      <4>1. PICK k \in 1..m : k # i /\ w[a] = q[k]
        BY <1>9
      <4>2. q[i].what # "list"
        BY <1>3, <3>1, <3>2, <4>1
      <4> QED
        BY <3>1, <3>2, <4>1, <4>2
    <3> QED
      BY <1>10, <3>2, Zenon DEF AskedInTurn
  <2> QED
    BY <2>1, <2>2
<1> QED
  BY <1>4, <1>7, <1>8, <1>10, <1>11, <1>12, Zenon DEF FetchesOk, S

-----------------------------------------------------------------------------
\* The pages' steps

LEMMA RenderedDown == ASSUME WalletView!Rendered PROVE down' \in BOOLEAN
<1>1. PICK t : t = WalletView!View.throws'
  OBVIOUS
<1>2. down' = t
  BY <1>1 DEF WalletView!Rendered
<1>3. t \in BOOLEAN
  <2>1. CASE view' = "home"
    BY <1>1, <2>1 DEF WalletView!View, WalletView!ViewOf, WalletView!DashboardHome, WalletView!ConsumerHome, WalletView!Quiet
  <2>2. CASE view' = "new"
    BY <1>1, <2>2 DEF WalletView!View, WalletView!ViewOf, WalletView!DashboardNew, WalletView!ConsumerNew, WalletView!Quiet
  <2>3. CASE view' = "list"
    BY <1>1, <2>3 DEF WalletView!View, WalletView!ViewOf, WalletView!DashboardList, WalletView!ConsumerList, WalletView!Quiet
  <2>4. CASE view' = "analytics"
    BY <1>1, <2>4 DEF WalletView!View, WalletView!ViewOf, WalletView!DashboardAnalytics, WalletView!ConsumerAnalytics, WalletView!Quiet
  <2>5. CASE view' = "escrow"
    BY <1>1, <2>5 DEF WalletView!View, WalletView!ViewOf, WalletView!DashboardEscrow, WalletView!ConsumerEscrow, WalletView!Quiet
  <2>6. CASE view' \notin {"home", "new", "list", "analytics", "escrow"}
    BY <1>1, <2>6 DEF WalletView!View, WalletView!ViewOf, WalletView!Quiet
  <2> QED
    BY <2>1, <2>2, <2>3, <2>4, <2>5, <2>6
<1> QED
  BY <1>2, <1>3

LEMMA ViewMay ==
    ASSUME BrowserInv, ~down
    PROVE  /\ WalletView!View.amount = 0 /\ "withdraw" \notin WalletView!View.may
           /\ app = "consumer" => "create" \notin WalletView!View.may
<1>1. /\ app \in {"dashboard", "consumer"} /\ balance \in BalanceType
      /\ view \in {"home", "new", "list", "analytics", "escrow", "settings", "workflow"}
      /\ balance.kind = "record" => balance.amount = 0
      /\ app = "consumer" => balance.kind # "null"
      /\ ~Unseemly(app, view, loading, balance)
  BY DEF BrowserInv, BalanceOk
<1>2. balance.kind \in {"null", "record", "number"} /\ balance.amount \in Nat
  BY <1>1 DEF BalanceType
<1>3. WalletView!Available = 0
  BY <1>1 DEF WalletView!Available
<1>4. balance.kind = "record" => ~WalletView!Affordable
  BY <1>1 DEF WalletView!Affordable
<1>5. balance.kind = "null" => WalletView!NoneLoaded
  BY DEF WalletView!NoneLoaded
<1>6. CASE view = "home"
  BY <1>3, <1>6 DEF WalletView!View, WalletView!ViewOf, WalletView!DashboardHome, WalletView!ConsumerHome, WalletView!Quiet
<1>7. CASE view = "new"
  <2>1. app = "consumer" => ~WalletView!ConsumerMaySubmit
    BY <1>1, <1>2, <1>4, <1>7 DEF Unseemly, WalletView!ConsumerMaySubmit
  <2> QED
    BY <1>1, <1>3, <1>7, <2>1 DEF WalletView!View, WalletView!ViewOf, WalletView!DashboardNew, WalletView!ConsumerNew, WalletView!Quiet
<1>8. CASE view = "list"
  BY <1>3, <1>8 DEF WalletView!View, WalletView!ViewOf, WalletView!DashboardList, WalletView!ConsumerList, WalletView!Quiet
<1>9. CASE view = "analytics"
  BY <1>3, <1>9 DEF WalletView!View, WalletView!ViewOf, WalletView!DashboardAnalytics, WalletView!ConsumerAnalytics, WalletView!Quiet
<1>10. CASE view = "escrow"
  <2>1. app = "consumer" => ~WalletView!ConsumerMayWithdraw
    BY <1>1, <1>2, <1>4, <1>10 DEF Unseemly, WalletView!ConsumerMayWithdraw
  <2>2. app = "dashboard" => loading \/ ~WalletView!DashboardMayWithdraw
    BY <1>1, <1>2, <1>4, <1>5, <1>10 DEF Unseemly, WalletView!DashboardMayWithdraw
  <2> QED
    BY <1>1, <1>3, <1>10, <2>1, <2>2 DEF WalletView!View, WalletView!ViewOf, WalletView!DashboardEscrow, WalletView!ConsumerEscrow, WalletView!Quiet
<1>11. CASE view \in {"settings", "workflow"}
  BY <1>11 DEF WalletView!View, WalletView!ViewOf, WalletView!Quiet
<1> QED
  BY <1>1, <1>6, <1>7, <1>8, <1>9, <1>10, <1>11

LEMMA WalletBrowses ==
    ASSUME WalletPageInv, UNCHANGED <<flow, pushing, listed, saved, funds>>,
           submit' = submit \/ submit' \in {"idle", "sent"}, SeenInv', BrowserInv'
    PROVE  WalletPageInv'
<1>1. submit' \in {"idle", "sent", "saving", "answered"} /\ (submit' = "saving" => submit = "saving")
  BY DEF WalletPageInv, EngineInv
<1>2. EngineInv'
  BY <1>1, Zenon DEF WalletPageInv, EngineInv
<1> QED
  BY <1>2 DEF WalletPageInv

LEMMA BrowserShows ==
    ASSUME BrowserInv, app' = app, connected' \in BOOLEAN,
           view' \in {"home", "new", "list", "analytics", "escrow", "settings", "workflow"},
           loading' \in BOOLEAN, filter' \in {"all", "completed"}, down' \in BOOLEAN, twice' \in BOOLEAN,
           incidents' = incidents \/ WalletView!Incident, BalanceOk(balance', app), app = "consumer" => submit' = "idle",
           ~down' => ~Unseemly(app', view', loading', balance')
    PROVE  BrowserInv'
<1>1. incidents' \in 0..1
  BY DEF BrowserInv, WalletView!Incident
<1> QED
  BY <1>1, Zenon DEF BrowserInv

LEMMA WalletShows ==
    ASSUME WalletPageInv, NEW p, NEW q \in Seq(FetchType(Len(flow))),
           \A i \in DOMAIN q : FetchOk(q[i], Len(flow), saved) /\ q[i].what = "balance",
           p \in {"home", "new", "list", "analytics", "escrow", "settings", "workflow"},
           WalletView!Show(p, q), UNCHANGED <<flow, saved>>
    PROVE  /\ SeenInv' /\ view' = p /\ loading' \in BOOLEAN /\ filter' = "all" /\ twice' = FALSE
<1>1. Len(flow) \in Nat /\ saved \in Nat
  BY DEF WalletPageInv, EngineInv, FlowsOk
<1>2. PICK r : r = IF connected /\ WalletView!ViewOf(p).asks # "nothing" THEN <<WalletView!Request(WalletView!ViewOf(p).asks)>> ELSE <<>>
  OBVIOUS
<1>3. /\ view' = p /\ fetches' = q \o r /\ Len(q \o r) <= 2 /\ list' = WalletView!Nothing
      /\ filter' = "all" /\ latest' = 0 /\ twice' = FALSE
      /\ loading' = (connected /\ WalletView!ViewOf(p).asks # "nothing")
  BY <1>2 DEF WalletView!Show
<1>4. r = <<>> \/ \E a \in {"info", "balance", "history", "list"} : r = <<WalletView!Request(a)>>
  <2>1. PICK a \in {"info", "balance", "list", "nothing"} : WalletView!ViewOf(p).asks = a
    BY ViewKnown
  <2> QED
    BY <1>2, <2>1
<1>5. FetchesOk(fetches', Len(flow), saved, FALSE, 0)
  BY <1>1, <1>3, <1>4, FetchesShown
<1>6. ListOk(WalletView!Nothing, Len(flow), saved)
  BY <1>1, WithNothing
<1>7. loading' \in BOOLEAN
  BY <1>3
<1>8. SeenInv'
  <2>1. 0 \in 0..saved /\ WalletView!Nothing.version = 0
    BY <1>1 DEF WalletView!Nothing
  <2> QED
    BY <1>3, <1>5, <1>6, <2>1, Zenon DEF SeenInv
<1> QED
  BY <1>3, <1>7, <1>8

LEMMA WalletOpens ==
    ASSUME WalletPageInv, NEW p \in {"home", "new", "list", "analytics", "escrow", "settings"}, WalletView!Open(p)
    PROVE  WalletPageInv'
<1>0. UNCHANGED <<app, connected, funds, flow, pushing, listed, saved, submit, incidents>>
  BY DEF WalletView!Open, WalletView!engineVars
<1>1. PICK q : q = IF app = "dashboard" THEN <<>> ELSE WalletView!Waiting
  OBVIOUS
<1>2. WalletView!Show(p, q) /\ WalletView!Rendered
      /\ balance' = (IF app = "dashboard" THEN WalletView!ViewOf(p).starts ELSE balance)
  BY <1>1 DEF WalletView!Open
<1>3. /\ q \in Seq(FetchType(Len(flow)))
      /\ \A i \in DOMAIN q : FetchOk(q[i], Len(flow), saved) /\ q[i].what = "balance"
  <2>1. CASE app = "dashboard"
    BY <1>1, <2>1
  <2>2. CASE app # "dashboard"
    <3>1. Len(flow) \in Nat /\ saved \in Nat /\ FetchesOk(fetches, Len(flow), saved, twice, latest)
      BY DEF WalletPageInv, EngineInv, FlowsOk, SeenInv
    <3> QED
      BY <1>1, <2>2, <3>1, WaitingOk
  <2> QED
    BY <2>1, <2>2
<1>4. /\ SeenInv' /\ view' = p /\ loading' \in BOOLEAN /\ filter' = "all" /\ twice' = FALSE
  BY <1>0, <1>2, <1>3, WalletShows
<1>5. BrowserInv /\ app \in {"dashboard", "consumer"} /\ connected \in BOOLEAN /\ BalanceOk(balance, app)
      /\ (app = "consumer" => submit = "idle")
  BY DEF WalletPageInv, BrowserInv
<1>6. BalanceOk(balance', app)
  <2>1. CASE app = "dashboard"
    BY <1>2, <2>1, ViewKnown DEF BalanceOk, BalanceType, WalletView!NoBalance, WalletView!ZeroBalance
  <2>2. CASE app # "dashboard"
    BY <1>2, <1>5, <2>2
  <2> QED
    BY <2>1, <2>2
<1>7. ~down' => ~Unseemly(app', view', loading', balance')
  BY <1>0, <1>2, <1>5, ViewThrowsNext
<1>8. BrowserInv'
  BY <1>0, <1>2, <1>4, <1>5, <1>6, <1>7, RenderedDown, BrowserShows
<1> QED
  BY <1>0, <1>4, <1>8, WalletBrowses

LEMMA WalletReloads ==
    ASSUME WalletPageInv, WalletView!Reload PROVE WalletPageInv'
<1>0. UNCHANGED <<app, connected, funds, flow, pushing, listed, saved, submit>>
  BY DEF WalletView!Reload, WalletView!engineVars
<1>1. WalletView!Show(view, <<>>) /\ down' = FALSE /\ WalletView!Incident
      /\ balance' = (IF app = "dashboard" THEN WalletView!View.starts ELSE WalletView!ZeroBalance)
  BY DEF WalletView!Reload
<1>2. BrowserInv /\ app \in {"dashboard", "consumer"} /\ connected \in BOOLEAN
      /\ view \in {"home", "new", "list", "analytics", "escrow", "settings", "workflow"}
      /\ (app = "consumer" => submit = "idle")
  BY DEF WalletPageInv, BrowserInv
<1>3. /\ SeenInv' /\ view' = view /\ loading' \in BOOLEAN /\ filter' = "all" /\ twice' = FALSE
  <2>1. <<>> \in Seq(FetchType(Len(flow))) /\ DOMAIN <<>> = {}
    OBVIOUS
  <2> QED
    BY <1>0, <1>1, <1>2, <2>1, WalletShows
<1>4. BalanceOk(balance', app) /\ balance'.kind # "number"
  <2>1. CASE app = "dashboard"
    BY <1>1, <1>2, <2>1, ViewKnown DEF BalanceOk, BalanceType, WalletView!NoBalance, WalletView!ZeroBalance, WalletView!View
  <2>2. CASE app # "dashboard"
    BY <1>1, <2>2 DEF BalanceOk, BalanceType, WalletView!ZeroBalance
  <2> QED
    BY <2>1, <2>2
<1>5. ~Unseemly(app', view', loading', balance')
  BY <1>4 DEF Unseemly
<1>6. BrowserInv'
  BY <1>0, <1>1, <1>2, <1>3, <1>4, <1>5, BrowserShows
<1> QED
  BY <1>0, <1>3, <1>6, WalletBrowses

LEMMA WalletChanges ==
    ASSUME WalletPageInv, WalletView!ChangeWallet PROVE WalletPageInv'
<1>0. UNCHANGED <<app, view, funds, flow, pushing, listed, saved, fetches, balance, list, loading, filter, down,
                  latest, twice, submit>>
  BY DEF WalletView!ChangeWallet, WalletView!engineVars, WalletView!viewVars
<1>1. connected' = ~connected /\ WalletView!Incident
  BY DEF WalletView!ChangeWallet
<1>2. SeenInv'
  BY <1>0, Zenon DEF WalletPageInv, SeenInv
<1>3. BrowserInv'
  <2>1. connected' \in BOOLEAN
    BY <1>1
  <2>2. /\ BrowserInv /\ loading' \in BOOLEAN /\ filter' \in {"all", "completed"} /\ down' \in BOOLEAN /\ twice' \in BOOLEAN
        /\ app = "consumer" => submit' = "idle"
        /\ view' \in {"home", "new", "list", "analytics", "escrow", "settings", "workflow"}
    BY <1>0, Zenon DEF WalletPageInv, BrowserInv
  <2>3. BalanceOk(balance', app) /\ (~down' => ~Unseemly(app', view', loading', balance'))
    BY <1>0, Zenon DEF WalletPageInv, BrowserInv
  <2> QED
    BY <1>0, <1>1, <2>1, <2>2, <2>3, BrowserShows
<1> QED
  BY <1>0, <1>2, <1>3, WalletBrowses

LEMMA WalletAsks ==
    ASSUME WalletPageInv, WalletView!Interval PROVE WalletPageInv'
<1>0. UNCHANGED <<app, view, connected, funds, flow, pushing, listed, saved, balance, list, loading, filter, down,
                  submit, incidents>>
  BY DEF WalletView!Interval, WalletView!engineVars
<1>1. /\ WalletView!View.again /\ Len(fetches) < 2
      /\ fetches' = Append(fetches, WalletView!Request(WalletView!View.asks))
      /\ twice' = (twice \/ fetches # <<>>)
      /\ latest' = (IF twice' THEN 0 ELSE latest)
  BY DEF WalletView!Interval
<1>2. /\ Len(flow) \in Nat /\ saved \in Nat /\ FetchesOk(fetches, Len(flow), saved, twice, latest)
      /\ ListOk(list, Len(flow), saved) /\ latest \in 0..saved /\ (twice \/ list.version = latest)
      /\ view \in {"home", "new", "list", "analytics", "escrow", "settings", "workflow"} /\ twice \in BOOLEAN
  BY DEF WalletPageInv, EngineInv, FlowsOk, SeenInv, BrowserInv
<1>3. PICK a \in {"info", "balance", "history", "list"} : a = WalletView!View.asks
  BY <1>1, <1>2, ViewKnown DEF WalletView!View
<1>4. PICK f : f = WalletView!Request(a)
  OBVIOUS
<1>5. FetchOk(f, Len(flow), saved) /\ f.pc = "sent"
  BY <1>2, <1>4, WithNothing
<1>6. twice' \in BOOLEAN /\ (fetches = <<>> \/ twice') /\ (twice' = FALSE => twice = FALSE)
  BY <1>1, <1>2
<1>7. FetchesOk(fetches', Len(flow), saved, twice', latest')
  <2>1. fetches' = Append(fetches, f)
    BY <1>1, <1>3, <1>4
  <2> QED
    BY <1>1, <1>2, <1>5, <1>6, <2>1, FetchAdded
<1>8. latest' \in 0..saved /\ (twice' \/ list.version = latest')
  BY <1>1, <1>2, <1>6
<1>9. SeenInv'
  BY <1>0, <1>2, <1>7, <1>8, Zenon DEF SeenInv
<1>10. BrowserInv'
  BY <1>0, <1>6, Zenon DEF WalletPageInv, BrowserInv
<1> QED
  BY <1>0, <1>9, <1>10, WalletBrowses

\* A request with its answer
Fetch(a, c, x, b) == [what |-> a, pc |-> c, value |-> x, balance |-> b]

\* An answered request
AnsweredFetch(f, x, c) ==
    CASE f.what = "list" -> [[f EXCEPT !.pc = "ok"] EXCEPT !.value = x]
      [] f.what = "balance" -> [[f EXCEPT !.pc = "ok"] EXCEPT !.balance = [kind |-> "number", amount |-> c]]
      [] OTHER -> [f EXCEPT !.pc = "ok"]

LEMMA FetchAnswered ==
    ASSUME NEW n \in Nat, NEW v \in Nat, NEW f, FetchOk(f, n, v), NEW x, ListOk(x, n, v), NEW c \in Nat,
           NEW g, g = AnsweredFetch(f, x, c)
    PROVE  FetchOk(g, n, v) /\ g.what = f.what /\ (g.what = "list" => g.value = x)
<1>1. PICK a \in {"info", "balance", "history", "list"}, y \in ListType(n), b \in BalanceType, d \in {"sent", "ok"} :
         f = Fetch(a, d, y, b)
  BY DEF FetchOk, FetchType, Fetch
<1>2. PICK k : k = [kind |-> "number", amount |-> c]
  OBVIOUS
<1>3. k \in BalanceType /\ k.kind = "number"
  BY <1>2 DEF BalanceType
<1>4. ListOk(y, n, v) /\ x \in ListType(n)
  BY <1>1 DEF FetchOk, ListOk, Fetch
<1>5. PICK L : L = ListType(n)
  OBVIOUS
<1>6. PICK B : B = BalanceType
  OBVIOUS
<1>7. ASSUME NEW z \in ListType(n), ListOk(z, n, v), NEW e \in BalanceType, a = "balance" => e.kind = "number"
      PROVE  FetchOk(Fetch(a, "ok", z, e), n, v)
  BY <1>5, <1>6, <1>7 DEF FetchOk, FetchType, Fetch
<1>8. CASE a = "list"
  <2>1. g = Fetch(a, "ok", x, b)
    BY <1>1, <1>8 DEF Fetch, AnsweredFetch
  <2>2. FetchOk(Fetch(a, "ok", x, b), n, v)
    BY <1>4, <1>7, <1>8
  <2>3. g.what = a /\ f.what = a /\ g.value = x
    BY <1>1, <2>1 DEF Fetch
  <2> QED
    BY <2>1, <2>2, <2>3
<1>9. CASE a = "balance"
  <2>1. g = Fetch(a, "ok", y, k)
    BY <1>1, <1>2, <1>9 DEF Fetch, AnsweredFetch
  <2>2. FetchOk(Fetch(a, "ok", y, k), n, v)
    BY <1>3, <1>4, <1>7
  <2>3. g.what = a /\ f.what = a
    BY <1>1, <2>1 DEF Fetch
  <2> QED
    BY <1>9, <2>1, <2>2, <2>3
<1>10. CASE a \in {"info", "history"}
  <2>1. g = Fetch(a, "ok", y, b)
    BY <1>1, <1>10 DEF Fetch, AnsweredFetch
  <2>2. FetchOk(Fetch(a, "ok", y, b), n, v)
    BY <1>4, <1>7, <1>10
  <2>3. g.what = a /\ f.what = a
    BY <1>1, <2>1 DEF Fetch
  <2> QED
    BY <1>10, <2>1, <2>2, <2>3
<1> QED
  BY <1>8, <1>9, <1>10

LEMMA WalletAnswers ==
    ASSUME WalletPageInv, NEW i \in DOMAIN fetches, WalletView!Answer(i) PROVE WalletPageInv'
<1>0. UNCHANGED <<app, view, connected, funds, flow, pushing, listed, saved, balance, list, loading, filter, down,
                  latest, twice, submit, incidents>>
  BY DEF WalletView!Answer, WalletView!engineVars, WalletView!viewVars
<1>1. /\ Len(flow) \in Nat /\ saved \in Nat /\ FetchesOk(fetches, Len(flow), saved, twice, latest)
      /\ FetchOk(fetches[i], Len(flow), saved) /\ latest \in 0..saved /\ funds \in Nat /\ EngineInv
  BY DEF WalletPageInv, EngineInv, FlowsOk, SeenInv, FetchesOk
<1>2. PICK x : x = WalletView!UserWorkflows(WalletView!Limit)
  OBVIOUS
<1>3. ListOk(x, Len(flow), saved) /\ x.version = saved
  <2>1. PICK limit \in {3, 4} : limit = WalletView!Limit
    BY DEF WalletView!Limit
  <2> QED
    BY <1>1, <1>2, <2>1, ListAnswered DEF WalletView!UserWorkflows
<1>4. PICK f : f = fetches[i]
  OBVIOUS
<1>5. PICK g : g = AnsweredFetch(f, x, funds)
  OBVIOUS
<1>6. fetches' = [fetches EXCEPT ![i] = g]
  BY <1>2, <1>4, <1>5 DEF WalletView!Answer, WalletView!EscrowBalance, AnsweredFetch
<1>7. FetchOk(f, Len(flow), saved)
  BY <1>1, <1>4
<1>8. FetchOk(g, Len(flow), saved) /\ g.what = f.what /\ (g.what = "list" => g.value = x)
  BY <1>1, <1>3, <1>5, <1>7, FetchAnswered
<1>9. saved >= latest
  BY <1>1
<1>10. FetchesOk(fetches', Len(flow), saved, twice, latest)
  <2>1. g.what = "list" => fetches[i].what = "list" /\ (g.pc = "ok" => g.value.version >= latest)
    BY <1>3, <1>4, <1>8, <1>9
  <2>2. FetchesOk([fetches EXCEPT ![i] = g], Len(flow), saved, twice, latest)
    BY <1>1, <1>8, <2>1, FetchReplaced
  <2> QED
    BY <1>6, <2>2
<1>11. SeenInv'
  BY <1>0, <1>10, Zenon DEF WalletPageInv, SeenInv
<1>12. BrowserInv'
  BY <1>0, Zenon DEF WalletPageInv, BrowserInv
<1> QED
  BY <1>0, <1>11, <1>12, WalletBrowses

LEMMA WalletReceives ==
    ASSUME WalletPageInv, NEW i \in DOMAIN fetches, WalletView!Receive(i) PROVE WalletPageInv'
<1>0. UNCHANGED <<app, view, connected, funds, flow, pushing, listed, saved, filter, twice, submit, incidents>>
  BY DEF WalletView!Receive, WalletView!engineVars
<1>1. PICK f : f = fetches[i]
  OBVIOUS
<1>2. PICK inTurn \in BOOLEAN : inTurn = (app = "dashboard" /\ view = "escrow")
  OBVIOUS
<1>3. /\ f.pc = "ok" /\ WalletView!Rendered
      /\ fetches' = IF inTurn /\ f.what = "info" THEN [fetches EXCEPT ![i] = WalletView!Request("balance")]
                    ELSE IF inTurn /\ f.what = "balance" THEN [fetches EXCEPT ![i] = WalletView!Request("history")]
                    ELSE WalletView!Without(i)
      /\ balance' = IF f.what = "balance" THEN f.balance ELSE balance
      /\ f.what = "list" => list' = f.value /\ latest' = IF twice \/ f.value.version < latest THEN latest ELSE f.value.version
      /\ f.what # "list" => UNCHANGED <<list, latest>>
      /\ loading' = (loading /\ \/ inTurn /\ f.what # "history"
                                \/ app = "consumer" /\ f.what = "balance")
  BY <1>1, <1>2 DEF WalletView!Receive
<1>4. /\ Len(flow) \in Nat /\ saved \in Nat /\ FetchesOk(fetches, Len(flow), saved, twice, latest)
      /\ FetchOk(f, Len(flow), saved) /\ latest \in 0..saved /\ ListOk(list, Len(flow), saved)
      /\ (twice \/ list.version = latest)
  BY <1>1 DEF WalletPageInv, EngineInv, FlowsOk, SeenInv, FetchesOk
<1>5. /\ f.balance \in BalanceType /\ ListOk(f.value, Len(flow), saved) /\ f.value.version \in 0..saved
      /\ f.what = "balance" => f.balance.kind = "number"
  <2>1. f.value \in ListType(Len(flow)) /\ f.value.version <= saved
    BY <1>4 DEF FetchOk, ListOk
  <2>2. f.value.version \in Nat
    BY <2>1 DEF ListType
  <2> QED
    BY <1>3, <1>4, <2>1, <2>2 DEF FetchOk, FetchType
<1>6. BalanceOk(balance', app)
  <2>1. CASE f.what = "balance"
    BY <1>3, <1>5, <2>1 DEF BalanceOk
  <2>2. CASE f.what # "balance"
    BY <1>3, <2>2 DEF WalletPageInv, BrowserInv
  <2> QED
    BY <2>1, <2>2
<1>7. f.what = "list" => twice \/ f.value.version >= latest
  BY <1>1, <1>3, <1>4 DEF FetchesOk, AskedInTurn
<1>8. /\ ListOk(list', Len(flow), saved) /\ latest' \in 0..saved
      /\ twice \/ list'.version = latest'
      /\ f.what # "list" => latest' = latest
  <2>1. CASE f.what = "list"
    <3>1. CASE twice
      BY <1>3, <1>4, <1>5, <2>1, <3>1
    <3>2. CASE ~twice
      <4>1. ~(f.value.version < latest)
        BY <1>4, <1>5, <1>7, <2>1, <3>2
      <4> QED
        BY <1>3, <1>5, <2>1, <3>2, <4>1
    <3> QED
      BY <3>1, <3>2
  <2>2. CASE f.what # "list"
    BY <1>3, <1>4, <2>2
  <2> QED
    BY <2>1, <2>2
<1>9. FetchesOk(fetches', Len(flow), saved, twice, latest')
  <2>1. CASE inTurn /\ f.what \in {"info", "balance"}
    <3>1. PICK a \in {"balance", "history"} : fetches' = [fetches EXCEPT ![i] = WalletView!Request(a)]
      BY <1>3, <2>1
    <3>2. PICK g : g = WalletView!Request(a)
      OBVIOUS
    <3>3. FetchOk(g, Len(flow), saved) /\ g.what # "list"
      BY <1>4, <3>2, WithNothing
    <3>4. FetchesOk([fetches EXCEPT ![i] = g], Len(flow), saved, twice, latest)
      BY <1>4, <3>3, FetchReplaced
    <3> QED
      BY <1>8, <2>1, <3>1, <3>2, <3>4
  <2>2. CASE ~(inTurn /\ f.what \in {"info", "balance"})
    <3>1. fetches' = SubSeq(fetches, 1, i - 1) \o SubSeq(fetches, i + 1, Len(fetches))
      BY <1>3, <2>2 DEF WalletView!Without
    <3>2. fetches[i].what = "list" \/ latest' = latest
      BY <1>1, <1>8
    <3>3. PICK l2 : l2 = latest'
      OBVIOUS
    <3>4. FetchesOk(SubSeq(fetches, 1, i - 1) \o SubSeq(fetches, i + 1, Len(fetches)), Len(flow), saved, twice, l2)
      BY <1>4, <3>2, <3>3, FetchTaken
    <3> QED
      BY <3>1, <3>3, <3>4
  <2> QED
    BY <2>1, <2>2
<1>10. SeenInv'
  BY <1>0, <1>8, <1>9, Zenon DEF SeenInv
<1>11. BrowserInv'
  <2>1. loading' \in BOOLEAN
    BY <1>3
  <2>2. /\ BrowserInv /\ connected' \in BOOLEAN /\ filter' \in {"all", "completed"} /\ twice' \in BOOLEAN
        /\ app = "consumer" => submit' = "idle"
        /\ view' \in {"home", "new", "list", "analytics", "escrow", "settings", "workflow"}
        /\ app' \in {"dashboard", "consumer"}
    BY <1>0, Zenon DEF WalletPageInv, BrowserInv
  <2>3. ~down' => ~Unseemly(app', view', loading', balance')
    BY <1>3, <2>2, ViewThrowsNext
  <2> QED
    BY <1>0, <1>3, <1>6, <2>1, <2>2, <2>3, RenderedDown, BrowserShows
<1> QED
  BY <1>0, <1>10, <1>11, WalletBrowses

LEMMA WalletFails ==
    ASSUME WalletPageInv, NEW i \in DOMAIN fetches, WalletView!Fail(i) PROVE WalletPageInv'
<1>0. UNCHANGED <<app, view, connected, funds, flow, pushing, listed, saved, balance, list, filter, submit, latest,
                  twice>>
  BY DEF WalletView!Fail, WalletView!engineVars
<1>1. /\ fetches' = SubSeq(fetches, 1, i - 1) \o SubSeq(fetches, i + 1, Len(fetches))
      /\ loading' = (loading /\ app = "consumer" /\ fetches[i].what = "balance")
      /\ WalletView!Incident /\ WalletView!Rendered
  BY DEF WalletView!Fail, WalletView!Without
<1>2. Len(flow) \in Nat /\ saved \in Nat /\ FetchesOk(fetches, Len(flow), saved, twice, latest)
  BY DEF WalletPageInv, EngineInv, FlowsOk, SeenInv
<1>3. FetchesOk(fetches', Len(flow), saved, twice, latest)
  BY <1>1, <1>2, FetchTaken
<1>4. SeenInv'
  BY <1>0, <1>3, Zenon DEF WalletPageInv, SeenInv
<1>5. BrowserInv'
  <2>1. loading' \in BOOLEAN
    BY <1>1
  <2>2. /\ BrowserInv /\ connected' \in BOOLEAN /\ filter' \in {"all", "completed"} /\ twice' \in BOOLEAN
        /\ app = "consumer" => submit' = "idle"
        /\ view' \in {"home", "new", "list", "analytics", "escrow", "settings", "workflow"}
        /\ app' \in {"dashboard", "consumer"} /\ BalanceOk(balance', app)
    BY <1>0, Zenon DEF WalletPageInv, BrowserInv
  <2>3. ~down' => ~Unseemly(app', view', loading', balance')
    BY <1>1, <2>2, ViewThrowsNext
  <2> QED
    BY <1>0, <1>1, <2>1, <2>2, <2>3, RenderedDown, BrowserShows
<1> QED
  BY <1>0, <1>4, <1>5, WalletBrowses

LEMMA WalletFilters ==
    ASSUME WalletPageInv, WalletView!ChangeFilter PROVE WalletPageInv'
<1>0. UNCHANGED <<app, view, connected, funds, flow, pushing, listed, saved, fetches, balance, list, loading, submit,
                  latest, twice, incidents>>
  BY DEF WalletView!ChangeFilter, WalletView!engineVars
<1>1. filter' \in {"all", "completed"} /\ WalletView!Rendered
  BY DEF WalletView!ChangeFilter
<1>2. SeenInv'
  BY <1>0, Zenon DEF WalletPageInv, SeenInv
<1>3. BrowserInv'
  <2>1. /\ BrowserInv /\ connected' \in BOOLEAN /\ loading' \in BOOLEAN /\ twice' \in BOOLEAN
        /\ app = "consumer" => submit' = "idle"
        /\ view' \in {"home", "new", "list", "analytics", "escrow", "settings", "workflow"}
        /\ app' \in {"dashboard", "consumer"} /\ BalanceOk(balance', app)
    BY <1>0, Zenon DEF WalletPageInv, BrowserInv
  <2>2. ~down' => ~Unseemly(app', view', loading', balance')
    BY <1>1, <2>1, ViewThrowsNext
  <2> QED
    BY <1>0, <1>1, <2>1, <2>2, RenderedDown, BrowserShows
<1> QED
  BY <1>0, <1>2, <1>3, WalletBrowses

\* The consumer's form has nothing to send: a balance is down with it, and none is enough.
LEMMA WalletSubmits ==
    ASSUME WalletPageInv, WalletView!Submit PROVE WalletPageInv'
<1>0. UNCHANGED <<app, view, connected, funds, flow, pushing, listed, saved, fetches, balance, list, loading, filter,
                  down, latest, twice, incidents>>
  BY DEF WalletView!Submit, WalletView!engineVars, WalletView!viewVars
<1>1. submit' = "sent" /\ app # "consumer"
  BY ViewMay DEF WalletView!Submit, WalletPageInv
<1>2. SeenInv'
  BY <1>0, Zenon DEF WalletPageInv, SeenInv
<1>3. BrowserInv'
  BY <1>0, <1>1, Zenon DEF WalletPageInv, BrowserInv
<1> QED
  BY <1>0, <1>1, <1>2, <1>3, WalletBrowses

LEMMA WalletSubmitted ==
    ASSUME WalletPageInv, WalletView!Submitted PROVE WalletPageInv'
<1>0. UNCHANGED <<app, connected, funds, flow, pushing, listed, saved, incidents>> /\ submit' = "idle"
  BY DEF WalletView!Submitted, WalletView!engineVars
<1>1. CASE UNCHANGED <<view, fetches, balance, list, loading, filter, down, latest, twice>>
  <2>1. SeenInv'
    BY <1>0, <1>1, Zenon DEF WalletPageInv, SeenInv
  <2>2. BrowserInv'
    BY <1>0, <1>1, Zenon DEF WalletPageInv, BrowserInv
  <2> QED
    BY <1>0, <2>1, <2>2, WalletBrowses
<1>2. CASE /\ app = "dashboard" /\ WalletView!Show("workflow", <<>>)
           /\ balance' = WalletView!NoBalance /\ UNCHANGED down
  <2>1. /\ SeenInv' /\ view' = "workflow" /\ loading' \in BOOLEAN /\ filter' = "all" /\ twice' = FALSE
    <3>1. <<>> \in Seq(FetchType(Len(flow))) /\ DOMAIN <<>> = {}
      OBVIOUS
    <3> QED
      BY <1>0, <1>2, <3>1, WalletShows
  <2>2. BrowserInv /\ connected' \in BOOLEAN /\ down' \in BOOLEAN
    BY <1>0, <1>2, Zenon DEF WalletPageInv, BrowserInv
  <2>3. BalanceOk(balance', app) /\ ~Unseemly(app', view', loading', balance')
    BY <1>2, <2>1 DEF BalanceOk, BalanceType, WalletView!NoBalance, Unseemly
  <2>4. BrowserInv'
    BY <1>0, <2>1, <2>2, <2>3, BrowserShows
  <2> QED
    BY <1>0, <2>1, <2>4, WalletBrowses
<1> QED
  BY <1>1, <1>2 DEF WalletView!Submitted, WalletView!viewVars

LEMMA WalletStep ==
    ASSUME WalletPageInv, [WalletView!WalletPagesNext]_(WalletView!walletPageVars) PROVE WalletPageInv'
<1>1. CASE WalletView!WalletPagesNext
  BY <1>1, WalletPlans, WalletCreates, WalletSaves, WalletOpens, WalletReloads, WalletChanges, WalletAsks,
     WalletFilters, WalletSubmits, WalletSubmitted, WalletAnswers, WalletReceives, WalletFails
  DEF WalletView!WalletPagesNext
<1>2. CASE UNCHANGED WalletView!walletPageVars
  <2>1. UNCHANGED <<app, view, connected, funds, flow, pushing, listed, saved, fetches, balance, list, loading,
                    filter, down, submit, latest, twice, incidents>>
    BY <1>2 DEF WalletView!walletPageVars, WalletView!engineVars, WalletView!viewVars
  <2> QED
    BY <2>1, Zenon DEF WalletPageInv, EngineInv, SeenInv, BrowserInv
<1> QED
  BY <1>1, <1>2

LEMMA WalletBegins ==
    ASSUME WalletView!Init PROVE WalletPageInv
<1>1. /\ app \in {"dashboard", "consumer"} /\ view = "settings" /\ connected \in BOOLEAN /\ funds = 1
      /\ flow = <<[status |-> "awaiting_approval", task |-> "none"]>> /\ listed = <<1, 1>>
      /\ pushing = <<>> /\ saved = 2
      /\ fetches = <<>> /\ balance = WalletView!ZeroBalance /\ list = WalletView!Nothing
      /\ loading = FALSE /\ filter = "all" /\ down = FALSE /\ submit = "idle"
      /\ latest = 0 /\ twice = FALSE /\ incidents = 0
  BY DEF WalletView!Init
<1>2. EngineInv
  <2>1. PICK k : k = Flow("awaiting_approval", "none")
    OBVIOUS
  <2>2. k \in FlowType /\ k.status = "awaiting_approval" /\ k.task = "none" /\ flow = <<k>>
    BY <1>1, <2>1 DEF Flow, FlowType, WalletView!Status
  <2> HIDE DEF FlowType
  <2>3. flow \in Seq(FlowType) /\ Len(flow) = 1 /\ flow[1] = k
    BY <2>2
  <2>4. FlowsOk(flow, 2)
    BY <2>2, <2>3 DEF FlowsOk
  <2>5. pushing \in Seq(1..1) /\ listed \in Seq(1..1) /\ Len(listed) + Len(pushing) = 2
    BY <1>1
  <2> QED
    BY <1>1, <2>3, <2>4, <2>5 DEF EngineInv
<1>3. Len(flow) = 1
  BY <1>1
<1>4. SeenInv
  <2>1. ListOk(WalletView!Nothing, 1, 2) /\ WalletView!Nothing.version = 0
    BY WithNothing DEF WalletView!Nothing
  <2>2. fetches \in Seq(FetchType(1)) /\ DOMAIN fetches = {} /\ Len(fetches) <= 2
    BY <1>1
  <2>3. FetchesOk(fetches, 1, 2, FALSE, 0)
    BY <2>2, Zenon DEF FetchesOk, AskedInTurn
  <2>4. PICK n : n = Len(flow)
    OBVIOUS
  <2>5. PICK x : x = WalletView!Nothing
    OBVIOUS
  <2>6. FetchesOk(fetches, n, saved, twice, latest) /\ ListOk(x, n, saved) /\ x.version = latest
    BY <1>1, <1>3, <2>1, <2>3, <2>4, <2>5
  <2>7. latest \in 0..saved /\ list = x
    BY <1>1, <2>5
  <2> QED
    BY <2>4, <2>6, <2>7, Zenon DEF SeenInv
<1>5. BrowserInv
  <2>1. /\ balance \in BalanceType /\ balance.amount = 0 /\ balance.kind = "record"
    BY <1>1 DEF BalanceType, WalletView!ZeroBalance
  <2>2. BalanceOk(balance, app)
    BY <2>1 DEF BalanceOk
  <2>3. ~Unseemly(app, view, loading, balance) /\ incidents \in 0..1
    BY <1>1, <2>1 DEF Unseemly
  <2>4. view \in {"home", "new", "list", "analytics", "escrow", "settings", "workflow"} /\ filter \in {"all", "completed"}
    BY <1>1
  <2>5. loading \in BOOLEAN /\ down \in BOOLEAN /\ twice \in BOOLEAN
    BY <1>1
  <2> QED
    BY <1>1, <2>2, <2>3, <2>4, <2>5, Zenon DEF BrowserInv
<1> QED
  BY <1>2, <1>4, <1>5 DEF WalletPageInv

LEMMA WalletKept ==
    ASSUME WalletPageInv PROVE WalletView!WalletPagesSound
<1>1. WalletView!BalanceUnseen
  BY ViewMay DEF WalletPageInv, BrowserInv, WalletView!BalanceUnseen
<1>2. WalletView!ListForward
  BY DEF WalletPageInv, SeenInv, WalletView!ListForward
<1>3. WalletView!SavesCounted
  BY DEF WalletPageInv, SeenInv, ListOk, SavesCount, WalletView!SavesCounted
<1> QED
  BY <1>1, <1>2, <1>3 DEF WalletView!WalletPagesSound

LEMMA WalletTyped ==
    ASSUME WalletPageInv PROVE WalletView!TypeOK
<1>1. /\ flow \in Seq(FlowType) /\ saved \in 2..4 /\ funds \in Nat
      /\ submit \in {"idle", "sent", "saving", "answered"}
      /\ pushing \in Seq(1..Len(flow)) /\ listed \in Seq(1..Len(flow)) /\ Len(listed) + Len(pushing) = saved
  BY DEF WalletPageInv, EngineInv, FlowsOk
<1>2. DOMAIN flow = 1..Len(flow) /\ saved \in 0..4 /\ Len(listed) <= 4
  <2> HIDE DEF FlowType
  <2> QED
    BY <1>1
<1>3. /\ FetchesOk(fetches, Len(flow), saved, twice, latest) /\ list \in ListType(Len(flow)) /\ latest \in Nat
  BY <1>1 DEF WalletPageInv, SeenInv, ListOk
<1>4. Len(fetches) <= 2 /\ \A i \in DOMAIN fetches : /\ fetches[i].what \in {"info", "balance", "history", "list"}
                                                     /\ fetches[i].pc \in {"sent", "ok"}
  BY <1>3 DEF FetchesOk, FetchOk, FetchType
<1>5. list.list \in Seq([id : 1..Len(flow), status : WalletView!Status]) /\ list.version \in Nat
  BY <1>3 DEF ListType
<1>6. /\ app \in {"dashboard", "consumer"} /\ connected \in BOOLEAN
      /\ view \in {"home", "new", "list", "analytics", "escrow", "settings", "workflow"}
      /\ loading \in BOOLEAN /\ filter \in {"all", "completed"} /\ down \in BOOLEAN /\ twice \in BOOLEAN
      /\ incidents \in 0..1 /\ balance \in BalanceType
  BY DEF WalletPageInv, BrowserInv, BalanceOk
<1>7. balance.kind \in {"null", "record", "number"} /\ balance.amount \in Nat
  BY <1>6 DEF BalanceType
<1> QED
  BY <1>1, <1>2, <1>3, <1>4, <1>5, <1>6, <1>7, Zenon DEF WalletView!TypeOK, FlowType

-----------------------------------------------------------------------------
\* FacilitatorPages: no query that wants a wallet's token is answered, and what the others hold
\* was so: a newer list has what an older one had, so links that were shown find their service.

\* What is held of the facilitator's services: no list of a version is shorter than what an
\* older value refers to, and none that is up to date lacks a service.
FacilitatorValue == [kind : {"none", "list", "ranks", "empty"}, upto : Nat, top : SUBSET Nat, version : Nat]

\* A value of a query was true of the services at its version.
ValueOk(x, n, c) ==
    /\ x \in FacilitatorValue /\ x.upto <= n /\ x.top \subseteq 1..n /\ x.version <= c
    /\ x.kind = "list" /\ x.version = c => x.upto = n

\* The values that the queries hold
Held(q, x) == \E k \in FacilitatorView!Keys : x = q[k].data \/ x = q[k].answer

\* A newer list shows what an older one does.
Finds(x, y) == x.kind = "list" /\ x.version >= y.version => y.upto <= x.upto /\ y.top \subseteq 1..x.upto
\* ... and the service that a link was followed to
FindsOpened(x, o) == x.kind = "list" /\ x.version >= o.version => o.id <= x.upto

\* A query
EntryType == [pc : {"idle", "asked", "answered"}, data : FacilitatorValue, answer : FacilitatorValue]

\* The queries agree with each other and with the services, ...
QueryOk(q, n, c) ==
    /\ q \in [FacilitatorView!Keys -> EntryType]
    /\ \A x : Held(q, x) => ValueOk(x, n, c)
    /\ \A x, y : Held(q, x) /\ Held(q, y) => Finds(x, y)
    /\ q["all-services"].data = FacilitatorView!Nothing \/ q["all-services"].data.kind = "list"
    /\ q["all-services"].answer = FacilitatorView!Nothing \/ q["all-services"].answer.kind = "list"

\* ... and with the page that was opened.
OpenedOk(q, o, n, c) ==
    /\ o \in [id : 0..1, version : 0..2] /\ o.id <= n /\ o.version <= c
    /\ \A x : Held(q, x) => FindsOpened(x, o)

\* The facilitator's rows
ServicesOk(s, c) ==
    /\ s \in Seq([own : BOOLEAN, calls : Nat]) /\ Len(s) <= 1 /\ c \in 0..2
    /\ \A i \in DOMAIN s : s[i].calls <= c

\* The dashboard's pages about the facilitator
FacilitatorPagesList == {"services", "manage", "serviceAnalytics", "new", "discover", "trending", "merchant",
                         "settlements", "transactions", "settings"}

\* What FacilitatorPagesSound follows from
FacilitatorInv ==
    /\ ServicesOk(service, changes)
    /\ granted = FALSE /\ paired \in BOOLEAN /\ place \in FacilitatorPagesList
    /\ form \in {"idle", "registering", "asking", "saving"} /\ setbacks \in 0..1
    /\ QueryOk(query, Len(service), changes)
    /\ OpenedOk(query, opened, Len(service), changes)

-----------------------------------------------------------------------------
\* What may come under a key: what is there, nothing, or what the facilitator has now
Fresh(x, n, c) == ValueOk(x, n, c) /\ x.version = c

\* A value that a query held, or a fresh one
Known(q, k, x, n, c) ==
    \/ x = q[k].data \/ x = q[k].answer \/ x = FacilitatorView!Nothing
    \/ x = FacilitatorView!Empty /\ k # "all-services"
    \/ Fresh(x, n, c) /\ (k = "all-services" => x.kind = "list")

\* A query's record
Entry(p, x, y) == [pc |-> p, data |-> x, answer |-> y]

\* A query goes on with values that are known.
Moves(q, k, e, n, c) ==
    \E x, y : /\ \E p \in {"idle", "asked", "answered"} : e = Entry(p, x, y)
              /\ Known(q, k, x, n, c) /\ Known(q, k, y, n, c)

LEMMA NothingOk ==
    ASSUME NEW n \in Nat, NEW c \in Nat
    PROVE  \A x \in {FacilitatorView!Nothing, FacilitatorView!Empty} :
              /\ ValueOk(x, n, c) /\ x.kind \in {"none", "empty"}
              /\ \A y : Finds(x, y)
              /\ \A y : ValueOk(y, n, c) => Finds(y, x)
              /\ \A o : FindsOpened(x, o)
<1> SUFFICES ASSUME NEW x \in {FacilitatorView!Nothing, FacilitatorView!Empty}
             PROVE  /\ ValueOk(x, n, c) /\ x.kind \in {"none", "empty"}
                    /\ \A y : Finds(x, y)
                    /\ \A y : ValueOk(y, n, c) => Finds(y, x)
                    /\ \A o : FindsOpened(x, o)
  OBVIOUS
<1>1. PICK k \in {"none", "empty"} : x = [kind |-> k, upto |-> 0, top |-> {}, version |-> 0]
  BY DEF FacilitatorView!Nothing, FacilitatorView!Empty
<1>2. x \in FacilitatorValue /\ x.kind = k /\ x.upto = 0 /\ x.top = {} /\ x.version = 0
  <2>1. {} \in SUBSET Nat
    OBVIOUS
  <2> QED
    BY <1>1, <2>1 DEF FacilitatorValue
<1>3. ValueOk(x, n, c)
  BY <1>2 DEF ValueOk
<1>4. ASSUME NEW y, ValueOk(y, n, c) PROVE Finds(y, x)
  <2>1. y.upto \in Nat
    BY <1>4 DEF ValueOk, FacilitatorValue
  <2> QED
    BY <1>2, <2>1 DEF Finds
<1> QED
  BY <1>2, <1>3, <1>4 DEF Finds, FindsOpened

LEMMA FreshFinds ==
    ASSUME NEW n \in Nat, NEW c \in Nat, NEW x, NEW y, ValueOk(x, n, c), ValueOk(y, n, c), Fresh(x, n, c) \/ Fresh(y, n, c)
    PROVE  Finds(x, y)
<1>1. /\ x.upto \in Nat /\ x.version \in Nat /\ x.upto <= n /\ x.version <= c
      /\ x.kind = "list" /\ x.version = c => x.upto = n
  BY DEF ValueOk, FacilitatorValue
<1>2. /\ y.upto \in Nat /\ y.version \in Nat /\ y.upto <= n /\ y.version <= c /\ y.top \subseteq 1..n
  BY DEF ValueOk, FacilitatorValue
<1>3. (x.version = c \/ y.version = c)
  BY DEF Fresh
<1> SUFFICES ASSUME x.kind = "list", x.version >= y.version PROVE y.upto <= x.upto /\ y.top \subseteq 1..x.upto
  BY DEF Finds
<1>4. x.version = c
  BY <1>1, <1>2, <1>3
<1>5. x.upto = n
  BY <1>1, <1>4
<1> QED
  BY <1>2, <1>5

LEMMA KnownOk ==
    ASSUME NEW n \in Nat, NEW c \in Nat, NEW q, QueryOk(q, n, c), NEW k \in FacilitatorView!Keys, NEW x, Known(q, k, x, n, c)
    PROVE  /\ ValueOk(x, n, c)
           /\ Held(q, x) \/ Fresh(x, n, c) \/ x \in {FacilitatorView!Nothing, FacilitatorView!Empty}
           /\ k = "all-services" => x = FacilitatorView!Nothing \/ x.kind = "list"
<1>1. Held(q, x) \/ Fresh(x, n, c) \/ x \in {FacilitatorView!Nothing, FacilitatorView!Empty}
  BY DEF Known, Held
<1>2. ValueOk(x, n, c)
  BY <1>1, NothingOk DEF QueryOk, Fresh
<1>3. k = "all-services" => x = FacilitatorView!Nothing \/ x.kind = "list"
  BY DEF Known, QueryOk
<1> QED
  BY <1>1, <1>2, <1>3

\* A step of the cache keeps what it holds in agreement.
LEMMA CacheMoves ==
    ASSUME NEW n \in Nat, NEW c \in Nat, NEW q, QueryOk(q, n, c), NEW q2, NEW f, q2 = [k \in FacilitatorView!Keys |-> f[k]],
           \A k \in FacilitatorView!Keys : Moves(q, k, f[k], n, c)
    PROVE  /\ QueryOk(q2, n, c)
           /\ \A o : OpenedOk(q, o, n, c) => OpenedOk(q2, o, n, c)
<1>1. ASSUME NEW k \in FacilitatorView!Keys
      PROVE  /\ q2[k] \in EntryType /\ Known(q, k, q2[k].data, n, c) /\ Known(q, k, q2[k].answer, n, c)
  <2>0. PICK x, y : /\ \E p \in {"idle", "asked", "answered"} : f[k] = Entry(p, x, y)
                    /\ Known(q, k, x, n, c) /\ Known(q, k, y, n, c)
    BY DEF Moves
  <2>1. PICK p \in {"idle", "asked", "answered"} : f[k] = Entry(p, x, y) /\ Known(q, k, x, n, c) /\ Known(q, k, y, n, c)
    BY <2>0
  <2>2. x \in FacilitatorValue /\ y \in FacilitatorValue
    BY <2>1, KnownOk DEF ValueOk
  <2>3. PICK V : V = FacilitatorValue
    OBVIOUS
  <2>4. q2[k] = Entry(p, x, y)
    BY <2>1
  <2> QED
    BY <2>1, <2>2, <2>3, <2>4 DEF Entry, EntryType
<1>2. q2 \in [FacilitatorView!Keys -> EntryType]
  BY <1>1
<1>3. ASSUME NEW x, Held(q2, x)
      PROVE  ValueOk(x, n, c) /\ (Held(q, x) \/ Fresh(x, n, c) \/ x \in {FacilitatorView!Nothing, FacilitatorView!Empty})
  <2>1. PICK k \in FacilitatorView!Keys : x = q2[k].data \/ x = q2[k].answer
    BY <1>3 DEF Held
  <2>2. Known(q, k, x, n, c)
    BY <1>1, <2>1
  <2> QED
    BY <2>2, KnownOk
<1>4. ASSUME NEW x, NEW y, Held(q2, x), Held(q2, y) PROVE Finds(x, y)
  <2>1. /\ ValueOk(x, n, c) /\ (Held(q, x) \/ Fresh(x, n, c) \/ x \in {FacilitatorView!Nothing, FacilitatorView!Empty})
        /\ ValueOk(y, n, c) /\ (Held(q, y) \/ Fresh(y, n, c) \/ y \in {FacilitatorView!Nothing, FacilitatorView!Empty})
    BY <1>3, <1>4
  <2>2. CASE Fresh(x, n, c) \/ Fresh(y, n, c)
    BY <2>1, <2>2, FreshFinds
  <2>3. CASE x \in {FacilitatorView!Nothing, FacilitatorView!Empty} \/ y \in {FacilitatorView!Nothing, FacilitatorView!Empty}
    BY <2>1, <2>3, NothingOk
  <2>4. CASE Held(q, x) /\ Held(q, y)
    BY <2>4 DEF QueryOk
  <2> QED
    BY <2>1, <2>2, <2>3, <2>4
<1>5. "all-services" \in FacilitatorView!Keys
  BY DEF FacilitatorView!Keys, FacilitatorView!Public
<1>6. /\ q2["all-services"].data = FacilitatorView!Nothing \/ q2["all-services"].data.kind = "list"
      /\ q2["all-services"].answer = FacilitatorView!Nothing \/ q2["all-services"].answer.kind = "list"
  BY <1>1, <1>5, KnownOk
<1>7. QueryOk(q2, n, c)
  BY <1>2, <1>3, <1>4, <1>6, Zenon DEF QueryOk
<1>8. ASSUME NEW o, OpenedOk(q, o, n, c) PROVE OpenedOk(q2, o, n, c)
  <2>1. o \in [id : 0..1, version : 0..2] /\ o.id <= n /\ o.version <= c /\ \A x : Held(q, x) => FindsOpened(x, o)
    BY <1>8 DEF OpenedOk
  <2>2. ASSUME NEW x, Fresh(x, n, c) PROVE FindsOpened(x, o)
    BY <2>1, <2>2 DEF Fresh, ValueOk, FindsOpened
  <2>3. \A x : Held(q2, x) => FindsOpened(x, o)
    BY <1>3, <2>1, <2>2, NothingOk, Zenon
  <2> QED
    BY <2>1, <2>3 DEF OpenedOk
<1> QED
  BY <1>7, <1>8

LEMMA StaysKnown ==
    ASSUME NEW n \in Nat, NEW c \in Nat, NEW q, QueryOk(q, n, c), NEW k \in FacilitatorView!Keys
    PROVE  Moves(q, k, q[k], n, c)
<1>1. q[k] \in EntryType
  BY DEF QueryOk
<1>2. PICK x, y : \E p \in {"idle", "asked", "answered"} : q[k] = Entry(p, x, y)
  BY <1>1 DEF EntryType, Entry
<1>3. x = q[k].data /\ y = q[k].answer
  BY <1>2 DEF Entry
<1> QED
  BY <1>2, <1>3 DEF Moves, Known

\* One key is changed.
LEMMA CacheMovesOne ==
    ASSUME NEW n \in Nat, NEW c \in Nat, NEW q, QueryOk(q, n, c), NEW k \in FacilitatorView!Keys, NEW e, Moves(q, k, e, n, c)
    PROVE  /\ QueryOk([q EXCEPT ![k] = e], n, c)
           /\ \A o : OpenedOk(q, o, n, c) => OpenedOk([q EXCEPT ![k] = e], o, n, c)
<1>1. PICK f : f = [j \in FacilitatorView!Keys |-> IF j = k THEN e ELSE q[j]]
  OBVIOUS
<1>2. \A j \in FacilitatorView!Keys : Moves(q, j, f[j], n, c)
  BY <1>1, StaysKnown
<1>3. DOMAIN q = FacilitatorView!Keys /\ q = [j \in FacilitatorView!Keys |-> q[j]]
  BY DEF QueryOk
<1>4. [q EXCEPT ![k] = e] = f /\ f = [j \in FacilitatorView!Keys |-> f[j]]
  BY <1>1, <1>3
<1> QED
  BY <1>2, <1>4, CacheMoves

-----------------------------------------------------------------------------
\* The cache's operations

LEMMA IdleEntries ==
    /\ FacilitatorView!Idle = Entry("idle", FacilitatorView!Nothing, FacilitatorView!Nothing)
    /\ \A x : /\ [FacilitatorView!Idle EXCEPT !.data = x] = Entry("idle", x, FacilitatorView!Nothing)
              /\ [FacilitatorView!Idle EXCEPT !.pc = "asked", !.data = x] = Entry("asked", x, FacilitatorView!Nothing)
<1>1. PICK m : m = FacilitatorView!Nothing
  OBVIOUS
<1>2. FacilitatorView!Idle = Entry("idle", m, m)
  BY <1>1 DEF FacilitatorView!Idle, Entry
<1>3. ASSUME NEW x
      PROVE  /\ [FacilitatorView!Idle EXCEPT !.data = x] = Entry("idle", x, m)
             /\ [FacilitatorView!Idle EXCEPT !.pc = "asked", !.data = x] = Entry("asked", x, m)
  <2>1. PICK r : r = FacilitatorView!Idle
    OBVIOUS
  <2>2. r = [pc |-> "idle", data |-> m, answer |-> m]
    BY <1>2, <2>1 DEF Entry
  <2>3. [r EXCEPT !.data = x] = [pc |-> "idle", data |-> x, answer |-> m]
    BY <2>2
  <2>4. [r EXCEPT !.pc = "asked"] = [pc |-> "asked", data |-> m, answer |-> m]
    BY <2>2
  <2>5. PICK u : u = [pc |-> "asked", data |-> m, answer |-> m]
    OBVIOUS
  <2>6. [u EXCEPT !.data = x] = [pc |-> "asked", data |-> x, answer |-> m]
    BY <2>5
  <2>7. [r EXCEPT !.pc = "asked", !.data = x] = [u EXCEPT !.data = x]
    BY <2>4, <2>5
  <2> QED
    BY <2>1, <2>3, <2>6, <2>7 DEF Entry
<1> QED
  BY <1>1, <1>2, <1>3

LEMMA NothingKnown ==
    ASSUME NEW n, NEW c, NEW q, NEW k, NEW p \in {"idle", "asked", "answered"}, NEW x, NEW y,
           Known(q, k, x, n, c), Known(q, k, y, n, c)
    PROVE  Moves(q, k, Entry(p, x, y), n, c)
BY DEF Moves

LEMMA AskKnown ==
    ASSUME NEW n \in Nat, NEW c \in Nat, NEW q, QueryOk(q, n, c), NEW k \in FacilitatorView!Keys
    PROVE  /\ Moves(q, k, FacilitatorView!Ask(k, q)[k], n, c)
           /\ FacilitatorView!Ask(k, q) = [q EXCEPT ![k] = FacilitatorView!Ask(k, q)[k]]
<1>1. DOMAIN q = FacilitatorView!Keys /\ q = [j \in FacilitatorView!Keys |-> q[j]]
  BY DEF QueryOk
<1>2. PICK e : e = IF k = "wallet-service-stats" /\ ~(\E i \in 1..q["all-services"].data.upto : service[i].own)
                   THEN Entry("idle", FacilitatorView!Empty, FacilitatorView!Nothing)
                   ELSE Entry("asked", q[k].data, FacilitatorView!Nothing)
  OBVIOUS
<1>3. FacilitatorView!Ask(k, q) = [q EXCEPT ![k] = e]
  BY <1>2, IdleEntries DEF FacilitatorView!Ask
<1>4. Moves(q, k, e, n, c)
  <2>1. Known(q, k, q[k].data, n, c) /\ Known(q, k, FacilitatorView!Nothing, n, c)
        /\ (k # "all-services" => Known(q, k, FacilitatorView!Empty, n, c))
    BY DEF Known
  <2>2. \/ e = Entry("idle", FacilitatorView!Empty, FacilitatorView!Nothing) /\ k # "all-services"
        \/ e = Entry("asked", q[k].data, FacilitatorView!Nothing)
    BY <1>2
  <2> QED
    BY <2>1, <2>2, NothingKnown
<1>5. [q EXCEPT ![k] = e][k] = e
  BY <1>1
<1> QED
  BY <1>3, <1>4, <1>5

LEMMA AskKept ==
    ASSUME NEW n \in Nat, NEW c \in Nat, NEW q, QueryOk(q, n, c), NEW k \in FacilitatorView!Keys
    PROVE  /\ QueryOk(FacilitatorView!Ask(k, q), n, c)
           /\ \A o : OpenedOk(q, o, n, c) => OpenedOk(FacilitatorView!Ask(k, q), o, n, c)
<1>1. PICK e : e = FacilitatorView!Ask(k, q)[k]
  OBVIOUS
<1>2. Moves(q, k, e, n, c) /\ FacilitatorView!Ask(k, q) = [q EXCEPT ![k] = e]
  BY <1>1, AskKnown
<1>3. PICK r : r = [q EXCEPT ![k] = e]
  OBVIOUS
<1>4. QueryOk(r, n, c) /\ \A o : OpenedOk(q, o, n, c) => OpenedOk(r, o, n, c)
  BY <1>2, <1>3, CacheMovesOne
<1> QED
  BY <1>2, <1>3, <1>4

LEMMA AskAllKept ==
    ASSUME NEW n \in Nat, NEW c \in Nat, NEW q, QueryOk(q, n, c), NEW p, NEW w
    PROVE  /\ QueryOk(FacilitatorView!AskAll(p, w, q), n, c)
           /\ \A o : OpenedOk(q, o, n, c) => OpenedOk(FacilitatorView!AskAll(p, w, q), o, n, c)
<1>1. PICK due : due = {k \in FacilitatorView!ViewOf(p).uses : FacilitatorView!Enabled(k, w, q) /\ q[k].pc = "idle"}
  OBVIOUS
<1>2. PICK f : f = [k \in FacilitatorView!Keys |-> IF k \in due THEN FacilitatorView!Ask(k, q)[k] ELSE q[k]]
  OBVIOUS
<1>3. FacilitatorView!AskAll(p, w, q) = f /\ f = [k \in FacilitatorView!Keys |-> f[k]]
  BY <1>1, <1>2 DEF FacilitatorView!AskAll
<1>4. ASSUME NEW k \in FacilitatorView!Keys PROVE Moves(q, k, f[k], n, c)
  <2>1. Moves(q, k, FacilitatorView!Ask(k, q)[k], n, c) /\ Moves(q, k, q[k], n, c)
    BY AskKnown, StaysKnown
  <2>2. f[k] = FacilitatorView!Ask(k, q)[k] \/ f[k] = q[k]
    BY <1>2
  <2> QED
    BY <2>1, <2>2
<1> QED
  BY <1>3, <1>4, CacheMoves

\* The cache begins anew.
LEMMA CacheBegins ==
    ASSUME NEW n \in Nat, NEW c \in Nat
    PROVE  /\ QueryOk([k \in FacilitatorView!Keys |-> FacilitatorView!Idle], n, c)
           /\ \A o \in [id : 0..1, version : 0..2] : o.id <= n /\ o.version <= c =>
                 OpenedOk([k \in FacilitatorView!Keys |-> FacilitatorView!Idle], o, n, c)
<1>1. PICK q : q = [k \in FacilitatorView!Keys |-> FacilitatorView!Idle]
  OBVIOUS
<1>2. FacilitatorView!Idle = Entry("idle", FacilitatorView!Nothing, FacilitatorView!Nothing)
  BY IdleEntries
<1>3. \A k \in FacilitatorView!Keys : q[k] = Entry("idle", FacilitatorView!Nothing, FacilitatorView!Nothing)
  BY <1>1, <1>2
<1>4. \A k \in FacilitatorView!Keys : q[k].data = FacilitatorView!Nothing /\ q[k].answer = FacilitatorView!Nothing
  BY <1>3 DEF Entry
<1>5. ValueOk(FacilitatorView!Nothing, n, c)
  BY NothingOk
<1>6. q \in [FacilitatorView!Keys -> EntryType]
  <2>1. PICK V : V = FacilitatorValue
    OBVIOUS
  <2>2. FacilitatorView!Nothing \in V
    BY <1>5, <2>1 DEF ValueOk
  <2>3. PICK N : N = FacilitatorView!Nothing
    OBVIOUS
  <2>4. Entry("idle", N, N) \in EntryType
    BY <2>1, <2>2, <2>3 DEF Entry, EntryType
  <2> QED
    BY <1>1, <1>3, <2>3, <2>4
<1>7. \A x : Held(q, x) => x = FacilitatorView!Nothing
  BY <1>4 DEF Held
<1>8. "all-services" \in FacilitatorView!Keys
  BY DEF FacilitatorView!Keys, FacilitatorView!Public
<1>9. QueryOk(q, n, c)
  <2>1. \A x : Held(q, x) => ValueOk(x, n, c)
    BY <1>5, <1>7
  <2>2. \A x, y : Held(q, x) /\ Held(q, y) => Finds(x, y)
    BY <1>7, NothingOk
  <2> QED
    BY <1>4, <1>6, <1>8, <2>1, <2>2, Zenon DEF QueryOk
<1>10. ASSUME NEW o \in [id : 0..1, version : 0..2], o.id <= n, o.version <= c PROVE OpenedOk(q, o, n, c)
  BY <1>7, <1>10, NothingOk DEF OpenedOk
<1> QED
  BY <1>1, <1>9, <1>10

\* The facilitator goes on.
LEMMA CacheAges ==
    ASSUME NEW n \in Nat, NEW c \in Nat, NEW m \in Nat, n <= m, NEW q, QueryOk(q, n, c)
    PROVE  /\ QueryOk(q, m, c + 1)
           /\ \A o : OpenedOk(q, o, n, c) => OpenedOk(q, o, m, c + 1)
<1>1. ASSUME NEW x, ValueOk(x, n, c) PROVE ValueOk(x, m, c + 1)
  <2>1. /\ x \in FacilitatorValue /\ x.upto \in Nat /\ x.version \in Nat /\ x.upto <= n /\ x.version <= c
        /\ x.top \subseteq 1..n
    BY <1>1 DEF ValueOk, FacilitatorValue
  <2>2. 1..n \subseteq 1..m
    OBVIOUS
  <2>3. x.upto <= m /\ x.version <= c + 1 /\ x.version # c + 1 /\ x.top \subseteq 1..m
    BY <2>1, <2>2
  <2> QED
    BY <2>1, <2>3 DEF ValueOk
<1>2. QueryOk(q, m, c + 1)
  BY <1>1, Zenon DEF QueryOk
<1>3. ASSUME NEW o, OpenedOk(q, o, n, c) PROVE OpenedOk(q, o, m, c + 1)
  <2>1. o \in [id : 0..1, version : 0..2] /\ o.id <= n /\ o.version <= c /\ \A x : Held(q, x) => FindsOpened(x, o)
    BY <1>3 DEF OpenedOk
  <2>2. o.id \in Nat /\ o.version \in Nat
    BY <2>1
  <2>3. o.id <= m /\ o.version <= c + 1
    BY <2>1, <2>2
  <2> QED
    BY <2>1, <2>3 DEF OpenedOk
<1> QED
  BY <1>2, <1>3

-----------------------------------------------------------------------------
\* The facilitator's steps

LEMMA ServicesKnown ==
    ASSUME FacilitatorInv
    PROVE  /\ Len(service) \in 0..1 /\ Len(service) \in Nat /\ changes \in 0..2 /\ changes \in Nat
           /\ DOMAIN service = 1..Len(service)
           /\ QueryOk(query, Len(service), changes) /\ OpenedOk(query, opened, Len(service), changes)
<1>1. /\ service \in Seq([own : BOOLEAN, calls : Nat]) /\ Len(service) <= 1 /\ changes \in 0..2
      /\ QueryOk(query, Len(service), changes) /\ OpenedOk(query, opened, Len(service), changes)
  BY DEF FacilitatorInv, ServicesOk
<1>2. Len(service) \in Nat /\ DOMAIN service = 1..Len(service)
  BY <1>1
<1> QED
  BY <1>1, <1>2

LEMMA FacilitatorServes ==
    ASSUME FacilitatorInv, ServicesOk(service', changes'), changes' = changes + 1, Len(service) <= Len(service'),
           UNCHANGED <<granted, paired, place, opened, query, form, setbacks>>
    PROVE  FacilitatorInv'
<1>1. QueryOk(query, Len(service), changes) /\ OpenedOk(query, opened, Len(service), changes)
      /\ Len(service) \in Nat /\ changes \in Nat
  BY ServicesKnown
<1>2. Len(service') \in Nat
  BY DEF ServicesOk
<1>3. QueryOk(query, Len(service'), changes + 1) /\ OpenedOk(query, opened, Len(service'), changes + 1)
  <2>1. PICK m : m = Len(service')
    OBVIOUS
  <2>2. QueryOk(query, m, changes + 1) /\ \A o : OpenedOk(query, o, Len(service), changes) => OpenedOk(query, o, m, changes + 1)
    BY <1>1, <1>2, <2>1, CacheAges
  <2> QED
    BY <1>1, <2>1, <2>2
<1> QED
  BY <1>3, Zenon DEF FacilitatorInv

LEMMA FacilitatorCreates ==
    ASSUME FacilitatorInv, FacilitatorView!CreateService PROVE FacilitatorInv'
<1>0. UNCHANGED <<granted, paired, place, opened, query, form, setbacks>>
  BY DEF FacilitatorView!CreateService, FacilitatorView!UnchangedPage
<1>1. PICK own \in BOOLEAN : service' = Append(service, [own |-> own, calls |-> 0])
  BY DEF FacilitatorView!CreateService
<1>2. Len(service) < 1 /\ changes < 2 /\ changes' = changes + 1
  BY DEF FacilitatorView!CreateService
<1>3. PICK s : s = [own |-> own, calls |-> 0]
  OBVIOUS
<1>4. s \in [own : BOOLEAN, calls : Nat] /\ s.calls = 0 /\ service' = Append(service, s)
  BY <1>1, <1>3
<1>5. service \in Seq([own : BOOLEAN, calls : Nat]) /\ changes \in 0..2 /\ \A i \in DOMAIN service : service[i].calls <= changes
  BY DEF FacilitatorInv, ServicesOk
<1>6. PICK S : S = [own : BOOLEAN, calls : Nat]
  OBVIOUS
<1>7. Len(service) = 0 /\ service' \in Seq(S) /\ Len(service') = 1 /\ DOMAIN service' = 1..1 /\ service'[1] = s
  BY <1>2, <1>4, <1>5, <1>6
<1>8. \A i \in DOMAIN service' : service'[i].calls <= changes + 1
  BY <1>4, <1>5, <1>7
<1>9. ServicesOk(service', changes')
  BY <1>2, <1>5, <1>6, <1>7, <1>8 DEF ServicesOk
<1> QED
  BY <1>0, <1>2, <1>7, <1>9, FacilitatorServes

LEMMA FacilitatorCounts ==
    ASSUME FacilitatorInv, FacilitatorView!CountCall PROVE FacilitatorInv'
<1>0. UNCHANGED <<granted, paired, place, opened, query, form, setbacks>>
  BY DEF FacilitatorView!CountCall, FacilitatorView!UnchangedPage
<1>1. PICK i \in DOMAIN service, d \in {1, -1} :
         service[i].calls + d >= 0 /\ service' = [service EXCEPT ![i].calls = service[i].calls + d]
  BY DEF FacilitatorView!CountCall
<1>2. changes < 2 /\ changes' = changes + 1
  BY DEF FacilitatorView!CountCall
<1> DEFINE S == [own : BOOLEAN, calls : Nat]
<1>3. service \in Seq(S) /\ Len(service) <= 1 /\ changes \in 0..2 /\ \A j \in DOMAIN service : service[j].calls <= changes
  BY DEF FacilitatorInv, ServicesOk
<1> HIDE DEF S
<1>4. service[i] \in S /\ Len(service) \in Nat
  BY <1>1, <1>3
<1>5. PICK w \in BOOLEAN, c \in Nat : service[i] = [own |-> w, calls |-> c]
  BY <1>4 DEF S
<1>6. c <= changes /\ c + d >= 0 /\ c + d \in Nat /\ c + d <= changes + 1
  <2>1. service[i].calls = c
    BY <1>5
  <2> QED
    BY <1>1, <1>3, <2>1
<1>7. PICK s : s = [own |-> w, calls |-> c + d]
  OBVIOUS
<1>8. s \in S /\ s.calls <= changes + 1
  BY <1>6, <1>7 DEF S
<1>9. service' = [service EXCEPT ![i] = s]
  <2>1. [service[i] EXCEPT !.calls = service[i].calls + d] = s
    BY <1>5, <1>7
  <2>2. [service EXCEPT ![i].calls = service[i].calls + d] = [service EXCEPT ![i] = s]
    BY <2>1, Zenon
  <2> QED
    BY <1>1, <2>2
<1>10. service' \in Seq(S) /\ Len(service') = Len(service) /\ DOMAIN service' = DOMAIN service
       /\ \A j \in DOMAIN service : service'[j] = IF j = i THEN s ELSE service[j]
  BY <1>3, <1>8, <1>9
<1>11. \A j \in DOMAIN service' : service'[j].calls <= changes + 1
  <2>1. \A j \in DOMAIN service : service[j].calls \in Nat
    <3>1. \A j \in DOMAIN service : service[j] \in S
      BY <1>3
    <3> QED
      BY <3>1 DEF S
  <2> QED
    BY <1>3, <1>8, <1>10, <2>1
<1>12. ServicesOk(service', changes')
  BY <1>2, <1>3, <1>10, <1>11 DEF ServicesOk, S
<1> QED
  BY <1>0, <1>2, <1>4, <1>10, <1>12, FacilitatorServes

-----------------------------------------------------------------------------
\* The pages' steps

LEMMA FacilitatorBrowses ==
    ASSUME FacilitatorInv, UNCHANGED <<service, changes, granted>>, paired' \in BOOLEAN, place' \in FacilitatorPagesList,
           form' \in {"idle", "registering", "asking", "saving"}, setbacks' = setbacks \/ FacilitatorView!Incident,
           QueryOk(query', Len(service), changes), OpenedOk(query', opened', Len(service), changes)
    PROVE  FacilitatorInv'
<1>1. setbacks' \in 0..1
  BY DEF FacilitatorInv, FacilitatorView!Incident
<1> QED
  BY <1>1, Zenon DEF FacilitatorInv

\* The cache alone changes, at one key.
LEMMA FacilitatorKeys ==
    ASSUME FacilitatorInv, NEW k \in FacilitatorView!Keys, NEW e, Moves(query, k, e, Len(service), changes),
           query' = [query EXCEPT ![k] = e], setbacks' = setbacks \/ FacilitatorView!Incident,
           UNCHANGED <<service, changes, granted, paired, place, opened, form>>
    PROVE  FacilitatorInv'
<1>1. /\ Len(service) \in Nat /\ changes \in Nat
      /\ QueryOk(query, Len(service), changes) /\ OpenedOk(query, opened, Len(service), changes)
  BY ServicesKnown
<1>2. PICK r : r = [query EXCEPT ![k] = e]
  OBVIOUS
<1>3. QueryOk(r, Len(service), changes) /\ \A o : OpenedOk(query, o, Len(service), changes) => OpenedOk(r, o, Len(service), changes)
  BY <1>1, <1>2, CacheMovesOne
<1>4. QueryOk(query', Len(service), changes) /\ OpenedOk(query', opened', Len(service), changes)
  BY <1>1, <1>2, <1>3
<1>5. paired' \in BOOLEAN /\ place' \in FacilitatorPagesList /\ form' \in {"idle", "registering", "asking", "saving"}
  BY DEF FacilitatorInv
<1> QED
  BY <1>4, <1>5, FacilitatorBrowses

LEMMA FacilitatorShows ==
    ASSUME FacilitatorInv, NEW p, NEW t, FacilitatorView!Show(p, t), OpenedOk(query, t, Len(service), changes)
    PROVE  place' = p /\ QueryOk(query', Len(service), changes) /\ OpenedOk(query', opened', Len(service), changes)
<1> DEFINE n == Len(service)
           c == changes
<1>1. n \in Nat /\ c \in Nat /\ QueryOk(query, n, c)
  BY ServicesKnown
<1> HIDE DEF n, c
<1>2. PICK q : q = [query EXCEPT !["ownTransactions"] = FacilitatorView!Idle]
  OBVIOUS
<1>3. place' = p /\ opened' = t /\ query' = FacilitatorView!AskAll(p, paired, q)
  BY <1>2 DEF FacilitatorView!Show
<1>4. QueryOk(q, n, c) /\ OpenedOk(q, t, n, c)
  <2>1. "ownTransactions" \in FacilitatorView!Keys
    BY DEF FacilitatorView!Keys, FacilitatorView!OfWallet
  <2>2. PICK e : e = FacilitatorView!Idle
    OBVIOUS
  <2>3. Moves(query, "ownTransactions", e, n, c)
    BY <2>2, IdleEntries DEF Moves, Known
  <2>4. OpenedOk(query, t, n, c)
    BY DEF n, c
  <2> QED
    BY <1>1, <1>2, <2>1, <2>2, <2>3, <2>4, CacheMovesOne
<1>5. PICK r : r = FacilitatorView!AskAll(p, paired, q)
  OBVIOUS
<1>6. QueryOk(r, n, c) /\ OpenedOk(r, t, n, c)
  BY <1>1, <1>4, <1>5, AskAllKept
<1> QED
  BY <1>3, <1>5, <1>6 DEF n, c

LEMMA NoneOpened ==
    ASSUME NEW n \in Nat, NEW c \in Nat, NEW q, QueryOk(q, n, c) PROVE OpenedOk(q, FacilitatorView!NoService, n, c)
<1>1. PICK o : o = FacilitatorView!NoService
  OBVIOUS
<1>2. o.id = 0 /\ o.version = 0 /\ o \in [id : 0..1, version : 0..2]
  BY <1>1 DEF FacilitatorView!NoService
<1>3. ASSUME NEW x, Held(q, x) PROVE FindsOpened(x, o)
  <2>1. x.upto \in Nat
    BY <1>3 DEF QueryOk, ValueOk, FacilitatorValue
  <2> QED
    BY <1>2, <2>1 DEF FindsOpened
<1> QED
  BY <1>1, <1>2, <1>3 DEF OpenedOk

LEMMA FailKnown ==
    ASSUME NEW n \in Nat, NEW c \in Nat, QueryOk(query, n, c), NEW k \in FacilitatorView!Keys, FacilitatorView!Fail(k)
    PROVE  \E e : query' = [query EXCEPT ![k] = e] /\ Moves(query, k, e, n, c)
<1>1. CASE query' = [query EXCEPT ![k] = [FacilitatorView!Idle EXCEPT !.data = query[k].data]]
  <2>1. PICK e : e = Entry("idle", query[k].data, FacilitatorView!Nothing)
    OBVIOUS
  <2>2. query' = [query EXCEPT ![k] = e]
    BY <1>1, <2>1, IdleEntries, Zenon
  <2> QED
    BY <2>1, <2>2, NothingKnown DEF Known
<1>2. CASE query' = query
  <2>1. query = [query EXCEPT ![k] = query[k]]
    BY DEF QueryOk
  <2> QED
    BY <1>2, <2>1, StaysKnown
<1> QED
  BY <1>1, <1>2 DEF FacilitatorView!Fail

LEMMA FacilitatorOpens ==
    ASSUME FacilitatorInv, NEW p \in FacilitatorPagesList, FacilitatorView!Open(p) PROVE FacilitatorInv'
<1>0. UNCHANGED <<service, changes, granted, paired, form, setbacks>> /\ FacilitatorView!Show(p, FacilitatorView!NoService)
  BY DEF FacilitatorView!Open, FacilitatorView!facilitatorVars
<1>1. OpenedOk(query, FacilitatorView!NoService, Len(service), changes)
  BY ServicesKnown, NoneOpened
<1>2. place' = p /\ QueryOk(query', Len(service), changes) /\ OpenedOk(query', opened', Len(service), changes)
  BY <1>0, <1>1, FacilitatorShows
<1>3. paired' \in BOOLEAN /\ form' \in {"idle", "registering", "asking", "saving"}
  BY <1>0 DEF FacilitatorInv
<1> QED
  BY <1>0, <1>2, <1>3, FacilitatorBrowses

\* What a page links to is in what it shows, of the version of that.
LEMMA LinksKnown ==
    ASSUME FacilitatorInv, NEW id \in FacilitatorView!View.links,
           NEW k, k = IF place = "trending" THEN "trending-services" ELSE "all-services"
    PROVE  FacilitatorView!Data(k) = query[k].data /\ (id \in query[k].data.top \/ id \in 1..query[k].data.upto)
<1>1. place \in FacilitatorPagesList
  BY DEF FacilitatorInv
<1>2. FacilitatorView!Data(k) = query[k].data
  BY DEF FacilitatorView!Data, FacilitatorView!OfWallet
<1>3. CASE place = "trending"
  <2>1. FacilitatorView!View.links = FacilitatorView!Data(k).top
    BY <1>3 DEF FacilitatorView!View, FacilitatorView!ViewOf, FacilitatorView!TrendingPage, FacilitatorView!Quiet
  <2> QED
    BY <1>2, <2>1
<1>4. CASE place = "services"
  <2>1. k = "all-services"
    BY <1>4
  <2>2. FacilitatorView!Own \subseteq 1..FacilitatorView!Data(k).upto
    BY <2>1 DEF FacilitatorView!Own, FacilitatorView!Listed
  <2>3. FacilitatorView!View.links \subseteq FacilitatorView!Own
    <3>1. FacilitatorView!View = FacilitatorView!ServicesPage
      BY <1>4 DEF FacilitatorView!View, FacilitatorView!ViewOf
    <3>2. FacilitatorView!ServicesPage.links \subseteq FacilitatorView!Own
      BY DEF FacilitatorView!ServicesPage, FacilitatorView!Quiet
    <3> QED
      BY <3>1, <3>2
  <2> QED
    BY <1>2, <2>2, <2>3
<1>5. CASE place \notin {"trending", "services"}
  <2>1. FacilitatorView!View.links = {}
    <3>1. CASE place \in {"manage", "serviceAnalytics"}
      BY <3>1 DEF FacilitatorView!View, FacilitatorView!ViewOf, FacilitatorView!ServiceAnalyticsPage, FacilitatorView!ManagePage, FacilitatorView!Quiet
    <3>2. CASE place = "new"
      BY <3>2 DEF FacilitatorView!View, FacilitatorView!ViewOf, FacilitatorView!NewServicePage, FacilitatorView!Quiet
    <3>3. CASE place = "discover"
      BY <3>3 DEF FacilitatorView!View, FacilitatorView!ViewOf, FacilitatorView!DiscoverPage, FacilitatorView!Quiet
    <3>4. CASE place = "merchant"
      BY <3>4 DEF FacilitatorView!View, FacilitatorView!ViewOf, FacilitatorView!MerchantPage, FacilitatorView!Quiet
    <3>5. CASE place = "settlements"
      BY <3>5 DEF FacilitatorView!View, FacilitatorView!ViewOf, FacilitatorView!SettlementsPage, FacilitatorView!Quiet
    <3>6. CASE place = "transactions"
      BY <3>6 DEF FacilitatorView!View, FacilitatorView!ViewOf, FacilitatorView!TransactionsPage, FacilitatorView!Quiet
    <3>7. CASE place = "settings"
      BY <3>7 DEF FacilitatorView!View, FacilitatorView!ViewOf, FacilitatorView!SettingsPage, FacilitatorView!Quiet
    <3> QED
      BY <1>1, <1>5, <3>1, <3>2, <3>3, <3>4, <3>5, <3>6, <3>7 DEF FacilitatorPagesList
  <2> QED
    BY <2>1
<1> QED
  BY <1>3, <1>4, <1>5

LEMMA FacilitatorFollows ==
    ASSUME FacilitatorInv, NEW p \in {"manage", "serviceAnalytics"}, FacilitatorView!OpenService(p) PROVE FacilitatorInv'
<1>0. UNCHANGED <<service, changes, granted, paired, form, setbacks>>
  BY DEF FacilitatorView!OpenService, FacilitatorView!facilitatorVars
<1>1. PICK k \in {"trending-services", "all-services"} : k = IF place = "trending" THEN "trending-services" ELSE "all-services"
  OBVIOUS
<1>2. PICK id \in FacilitatorView!View.links : \E t : t = [id |-> id, version |-> FacilitatorView!Data(k).version] /\ FacilitatorView!Show(p, t)
  BY <1>1 DEF FacilitatorView!OpenService
<1>2a. PICK t : t = [id |-> id, version |-> FacilitatorView!Data(k).version] /\ FacilitatorView!Show(p, t)
  BY <1>2
<1>3. PICK y : y = query[k].data
  OBVIOUS
<1>4. t = [id |-> id, version |-> y.version] /\ (id \in y.top \/ id \in 1..y.upto)
  BY <1>1, <1>2a, <1>3, LinksKnown
<1>5. Held(query, y)
  BY <1>3 DEF Held, FacilitatorView!Keys, FacilitatorView!Public
<1>6. QueryOk(query, Len(service), changes) /\ Len(service) \in 0..1 /\ changes \in 0..2
  BY ServicesKnown
<1>7. y \in FacilitatorValue /\ y.upto <= Len(service) /\ y.top \subseteq 1..Len(service) /\ y.version <= changes
  BY <1>5, <1>6 DEF QueryOk, ValueOk
<1>8. y.version \in 0..2 /\ y.upto \in Nat
  BY <1>6, <1>7 DEF FacilitatorValue
<1>9. id \in 1..Len(service)
  BY <1>4, <1>6, <1>7, <1>8
<1>10. t.id = id /\ t.version = y.version /\ t \in [id : 0..1, version : 0..2] /\ t.id <= Len(service) /\ t.version <= changes
  <2>1. t.id = id /\ t.version = y.version
    BY <1>4
  <2>2. PICK v \in 0..2 : v = y.version
    BY <1>8
  <2>3. id \in 0..1 /\ id <= Len(service) /\ v <= changes
    <3>1. PICK m \in 0..1 : m = Len(service)
      BY <1>6
    <3>2. id \in 1..m
      BY <1>9, <3>1
    <3>3. id \in 0..1 /\ id <= m
      BY <3>1, <3>2
    <3> QED
      BY <1>7, <2>2, <3>1, <3>3
  <2>4. t = [id |-> id, version |-> v]
    BY <1>4, <2>2
  <2>5. t \in [id : 0..1, version : 0..2]
    BY <2>3, <2>4
  <2> QED
    BY <2>1, <2>2, <2>3, <2>5
<1>11. ASSUME NEW x, Held(query, x) PROVE FindsOpened(x, t)
  <2>1. Finds(x, y) /\ x.upto \in Nat
    BY <1>5, <1>6, <1>11 DEF QueryOk, ValueOk, FacilitatorValue
  <2> SUFFICES ASSUME x.kind = "list", x.version >= t.version PROVE t.id <= x.upto
    BY DEF FindsOpened
  <2>2. y.upto <= x.upto /\ y.top \subseteq 1..x.upto
    BY <1>10, <2>1 DEF Finds
  <2> QED
    BY <1>4, <1>8, <1>10, <2>1, <2>2
<1>12. OpenedOk(query, t, Len(service), changes)
  BY <1>10, <1>11 DEF OpenedOk
<1>13. place' = p /\ QueryOk(query', Len(service), changes) /\ OpenedOk(query', opened', Len(service), changes)
  BY <1>2a, <1>12, FacilitatorShows
<1>14. paired' \in BOOLEAN /\ form' \in {"idle", "registering", "asking", "saving"} /\ place' \in FacilitatorPagesList
  BY <1>0, <1>13 DEF FacilitatorInv, FacilitatorPagesList
<1> QED
  BY <1>0, <1>13, <1>14, FacilitatorBrowses

LEMMA FacilitatorFetches ==
    ASSUME FacilitatorInv, NEW k \in FacilitatorView!Keys,
           FacilitatorView!Fetch(k) \/ FacilitatorView!Collect(k) \/ FacilitatorView!Lose(k)
    PROVE  FacilitatorInv'
<1>0. UNCHANGED <<service, changes, granted, paired, place, opened, form>> /\ (setbacks' = setbacks \/ FacilitatorView!Incident)
  BY DEF FacilitatorView!Fetch, FacilitatorView!Collect, FacilitatorView!Lose, FacilitatorView!facilitatorVars
<1>1. QueryOk(query, Len(service), changes) /\ Len(service) \in Nat /\ changes \in Nat
  BY ServicesKnown
<1>2. PICK e : query' = [query EXCEPT ![k] = e] /\ Moves(query, k, e, Len(service), changes)
  <2>1. CASE FacilitatorView!Fetch(k)
    BY <1>1, <2>1, AskKnown DEF FacilitatorView!Fetch
  <2>2. CASE FacilitatorView!Collect(k)
    <3>1. PICK e : e = Entry("idle", FacilitatorView!Nothing, FacilitatorView!Nothing)
      OBVIOUS
    <3>2. query' = [query EXCEPT ![k] = e]
      BY <2>2, <3>1, IdleEntries, Zenon DEF FacilitatorView!Collect
    <3>3. Known(query, k, FacilitatorView!Nothing, Len(service), changes)
      BY DEF Known
    <3>4. Moves(query, k, e, Len(service), changes)
      BY <3>1, <3>3, NothingKnown
    <3> QED
      BY <3>2, <3>4
  <2>3. CASE FacilitatorView!Lose(k)
    BY <1>1, <2>3, FailKnown DEF FacilitatorView!Lose
  <2> QED
    BY <2>1, <2>2, <2>3
<1> QED
  BY <1>0, <1>2, FacilitatorKeys

\* What the facilitator answers: a list and a ranking of now, and nothing that is private.
LEMMA AnswersKnown ==
    ASSUME FacilitatorInv, NEW k \in FacilitatorView!Keys, NEW a \in FacilitatorView!Answers(k)
    PROVE  \/ a = FacilitatorView!Refusal
           \/ k \in FacilitatorView!Public /\ Fresh(a, Len(service), changes) /\ (k = "all-services" => a.kind = "list")
           \/ k \notin FacilitatorView!Public /\ a = FacilitatorView!Empty
<1> DEFINE n == Len(service)
           c == changes
<1>1. n \in Nat /\ c \in Nat /\ DOMAIN service = 1..n
  BY ServicesKnown
<1> HIDE DEF n, c
<1>2. ~FacilitatorView!Authorized
  <2>1. Len(FacilitatorView!TokenParts) = 4
    BY DEF FacilitatorView!TokenParts
  <2> QED
    BY <2>1 DEF FacilitatorView!Authorized, FacilitatorView!Verified
<1>3. /\ FacilitatorView!GetTransactions = FacilitatorView!Refusal
      /\ FacilitatorView!GetPendingSettlement = FacilitatorView!Refusal
      /\ FacilitatorView!GetSettlementHistory = FacilitatorView!Refusal
      /\ FacilitatorView!GetRecentTransactions = FacilitatorView!Refusal
      /\ FacilitatorView!GetServiceStats = FacilitatorView!Refusal
      /\ FacilitatorView!GetMerchantStats = FacilitatorView!Refusal
      /\ FacilitatorView!ListKeys \in {FacilitatorView!Refusal, FacilitatorView!Empty}
      /\ FacilitatorView!WebhookConfig \in {FacilitatorView!Refusal, FacilitatorView!Empty}
  BY <1>2 DEF FacilitatorView!GetTransactions, FacilitatorView!GetPendingSettlement, FacilitatorView!GetSettlementHistory,
              FacilitatorView!GetRecentTransactions, FacilitatorView!GetServiceStats, FacilitatorView!GetMerchantStats,
              FacilitatorView!ListKeys, FacilitatorView!WebhookConfig
<1>4. CASE k = "all-services"
  <2>1. a = FacilitatorView!GetServices
    BY <1>4 DEF FacilitatorView!Answers
  <2>2. a = [kind |-> "list", upto |-> n, top |-> {}, version |-> c]
    BY <2>1 DEF FacilitatorView!GetServices, FacilitatorView!Nothing, n, c
  <2>3. {} \in SUBSET Nat
    OBVIOUS
  <2>4. a \in FacilitatorValue /\ a.upto = n /\ a.top = {} /\ a.version = c /\ a.kind = "list"
    BY <1>1, <2>2, <2>3 DEF FacilitatorValue
  <2>5. Fresh(a, n, c)
    BY <1>1, <2>4 DEF Fresh, ValueOk
  <2> QED
    BY <1>4, <2>4, <2>5 DEF FacilitatorView!Public, n, c
<1>5. CASE k = "trending-services"
  <2>1. a \in FacilitatorView!GetTrendingServices
    BY <1>5 DEF FacilitatorView!Answers
  <2>2. PICK t \in FacilitatorView!TrendingTops : a = [FacilitatorView!Nothing EXCEPT !.kind = "ranks", !.top = t, !.version = changes]
    BY <2>1 DEF FacilitatorView!GetTrendingServices
  <2>3. t \subseteq 1..n
    BY <1>1 DEF FacilitatorView!TrendingTops
  <2>4. a = [kind |-> "ranks", upto |-> 0, top |-> t, version |-> c]
    BY <2>2 DEF FacilitatorView!Nothing, c
  <2>5. t \in SUBSET Nat
    BY <1>1, <2>3
  <2>6. a \in FacilitatorValue /\ a.upto = 0 /\ a.top = t /\ a.version = c /\ a.kind = "ranks"
    BY <1>1, <2>4, <2>5 DEF FacilitatorValue
  <2>7. Fresh(a, n, c)
    BY <1>1, <2>3, <2>6 DEF Fresh, ValueOk
  <2> QED
    BY <1>5, <2>7 DEF FacilitatorView!Public, n, c
<1>6. CASE k \notin FacilitatorView!Public
  <2>1. \/ k \in {"wallet-service-stats", "service-stats"} \/ k \in {"service-transactions", "ownTransactions"}
        \/ k = "pending-settlement" \/ k = "settlement-history" \/ k = "merchant-stats" \/ k = "recent-transactions"
        \/ k = "api-keys" \/ k = "webhook-config"
    BY <1>6 DEF FacilitatorView!Keys, FacilitatorView!OfWallet, FacilitatorView!OfService
  <2>2. a \in {FacilitatorView!Refusal, FacilitatorView!Empty}
    BY <1>3, <2>1 DEF FacilitatorView!Answers
  <2> QED
    BY <1>6, <2>2
<1> QED
  BY <1>4, <1>5, <1>6 DEF FacilitatorView!Public

LEMMA FacilitatorAnswers ==
    ASSUME FacilitatorInv, NEW k \in FacilitatorView!Keys, FacilitatorView!Answer(k) PROVE FacilitatorInv'
<1>0. UNCHANGED <<service, changes, granted, paired, place, opened, form, setbacks>>
  BY DEF FacilitatorView!Answer, FacilitatorView!facilitatorVars
<1>1. QueryOk(query, Len(service), changes) /\ Len(service) \in Nat /\ changes \in Nat
  BY ServicesKnown
<1>2. PICK a \in FacilitatorView!Answers(k) :
         IF a = FacilitatorView!Refusal THEN FacilitatorView!Fail(k)
         ELSE query' = IF k \in FacilitatorView!Public THEN [query EXCEPT ![k].pc = "answered", ![k].answer = a]
                       ELSE [query EXCEPT ![k] = [FacilitatorView!Idle EXCEPT !.data = a]]
  BY DEF FacilitatorView!Answer
<1>3. PICK e : query' = [query EXCEPT ![k] = e] /\ Moves(query, k, e, Len(service), changes)
  <2>1. CASE a = FacilitatorView!Refusal
    BY <1>1, <1>2, <2>1, FailKnown
  <2>2. CASE a # FacilitatorView!Refusal /\ k \in FacilitatorView!Public
    <3>1. query' = [query EXCEPT ![k].pc = "answered", ![k].answer = a]
      BY <1>2, <2>2
    <3>2. Known(query, k, a, Len(service), changes)
      BY <2>2, AnswersKnown DEF Known
    <3>3. PICK x : x = query[k].data
      OBVIOUS
    <3>4. Known(query, k, x, Len(service), changes)
      BY <3>3 DEF Known
    <3>5. PICK e : e = Entry("answered", x, a)
      OBVIOUS
    <3>6. query[k] \in EntryType /\ DOMAIN query = FacilitatorView!Keys
      BY <1>1 DEF QueryOk
    <3>7. PICK p, y : query[k] = Entry(p, x, y)
      BY <3>3, <3>6 DEF EntryType, Entry
    <3>8. PICK A : A = [query EXCEPT ![k] = Entry("answered", x, y)]
      OBVIOUS
    <3>9. [query EXCEPT ![k].pc = "answered"] = A
      <4>1. [query[k] EXCEPT !.pc = "answered"] = Entry("answered", x, y)
        BY <3>7 DEF Entry
      <4> QED
        BY <3>8, <4>1, Zenon
    <3>10. [A EXCEPT ![k].answer = a] = [A EXCEPT ![k] = e]
      <4>1. A[k] = Entry("answered", x, y)
        BY <3>6, <3>8
      <4>2. [A[k] EXCEPT !.answer = a] = e
        BY <3>5, <4>1 DEF Entry
      <4> QED
        BY <4>2, Zenon
    <3>11. [query EXCEPT ![k].pc = "answered", ![k].answer = a] = [A EXCEPT ![k].answer = a]
      BY <3>9, Zenon
    <3>12. [A EXCEPT ![k] = e] = [query EXCEPT ![k] = e]
      BY <3>6, <3>8
    <3>13. query' = [query EXCEPT ![k] = e]
      BY <3>1, <3>10, <3>11, <3>12, Zenon
    <3> QED
      BY <3>2, <3>4, <3>5, <3>13, NothingKnown
  <2>3. CASE a # FacilitatorView!Refusal /\ k \notin FacilitatorView!Public
    <3>1. PICK e : e = Entry("idle", FacilitatorView!Empty, FacilitatorView!Nothing)
      OBVIOUS
    <3>2. a = FacilitatorView!Empty
      BY <2>3, AnswersKnown
    <3>3. query' = [query EXCEPT ![k] = e]
      BY <1>2, <2>3, <3>1, <3>2, IdleEntries, Zenon
    <3>4. Known(query, k, FacilitatorView!Empty, Len(service), changes) /\ Known(query, k, FacilitatorView!Nothing, Len(service), changes)
      BY <2>3 DEF Known, FacilitatorView!Public
    <3> QED
      BY <3>1, <3>3, <3>4, NothingKnown
  <2> QED
    BY <2>1, <2>2, <2>3
<1> QED
  BY <1>0, <1>3, FacilitatorKeys

LEMMA FacilitatorReceives ==
    ASSUME FacilitatorInv, NEW k \in FacilitatorView!Keys, FacilitatorView!Receive(k) PROVE FacilitatorInv'
<1>0. UNCHANGED <<service, changes, granted, paired, place, opened, form, setbacks>>
  BY DEF FacilitatorView!Receive, FacilitatorView!facilitatorVars
<1> DEFINE n == Len(service)
           c == changes
<1>1. QueryOk(query, n, c) /\ OpenedOk(query, opened, n, c) /\ n \in Nat /\ c \in Nat
  BY ServicesKnown
<1> HIDE DEF n, c
<1>2. PICK e : e = Entry("idle", query[k].answer, FacilitatorView!Nothing)
  OBVIOUS
<1>3. PICK q : q = [query EXCEPT ![k] = e]
  OBVIOUS
<1>4. e = [FacilitatorView!Idle EXCEPT !.data = query[k].answer]
  BY <1>2, IdleEntries, Zenon
<1>5. query' = FacilitatorView!AskAll(place, paired, q) \/ query' = q
  BY <1>3, <1>4 DEF FacilitatorView!Receive
<1>6. Moves(query, k, e, n, c)
  <2>1. Known(query, k, query[k].answer, n, c) /\ Known(query, k, FacilitatorView!Nothing, n, c)
    BY DEF Known
  <2> QED
    BY <1>2, <2>1, NothingKnown
<1>7. QueryOk(q, n, c) /\ OpenedOk(q, opened, n, c)
  BY <1>1, <1>3, <1>6, CacheMovesOne
<1>8. PICK r : r = FacilitatorView!AskAll(place, paired, q)
  OBVIOUS
<1>9. QueryOk(r, n, c) /\ OpenedOk(r, opened, n, c)
  BY <1>1, <1>7, <1>8, AskAllKept
<1>10. QueryOk(query', n, c) /\ OpenedOk(query', opened', n, c)
  BY <1>0, <1>5, <1>7, <1>8, <1>9
<1>11. paired' \in BOOLEAN /\ place' \in FacilitatorPagesList /\ form' \in {"idle", "registering", "asking", "saving"}
  BY <1>0 DEF FacilitatorInv
<1> QED
  BY <1>0, <1>10, <1>11, FacilitatorBrowses DEF n, c

LEMMA FacilitatorReloads ==
    ASSUME FacilitatorInv, FacilitatorView!Reload PROVE FacilitatorInv'
<1>0. UNCHANGED <<service, changes, granted, paired, place, opened>> /\ FacilitatorView!Incident /\ form' = "idle"
  BY DEF FacilitatorView!Reload, FacilitatorView!facilitatorVars
<1> DEFINE n == Len(service)
           c == changes
<1>1. OpenedOk(query, opened, n, c) /\ n \in Nat /\ c \in Nat
  BY ServicesKnown
<1> HIDE DEF n, c
<1>2. PICK q : q = [k \in FacilitatorView!Keys |-> FacilitatorView!Idle]
  OBVIOUS
<1>3. PICK r : r = FacilitatorView!AskAll(place, paired, q)
  OBVIOUS
<1>4. query' = r
  BY <1>2, <1>3 DEF FacilitatorView!Reload
<1>5. opened \in [id : 0..1, version : 0..2] /\ opened.id <= n /\ opened.version <= c
  BY <1>1 DEF OpenedOk
<1>6. QueryOk(q, n, c) /\ OpenedOk(q, opened, n, c)
  BY <1>1, <1>2, <1>5, CacheBegins
<1>7. QueryOk(r, n, c) /\ OpenedOk(r, opened, n, c)
  BY <1>1, <1>3, <1>6, AskAllKept
<1>8. QueryOk(query', n, c) /\ OpenedOk(query', opened', n, c)
  BY <1>0, <1>4, <1>7
<1>9. paired' \in BOOLEAN /\ place' \in FacilitatorPagesList /\ form' \in {"idle", "registering", "asking", "saving"}
  BY <1>0 DEF FacilitatorInv
<1> QED
  BY <1>0, <1>8, <1>9, FacilitatorBrowses DEF n, c

LEMMA FacilitatorChanges ==
    ASSUME FacilitatorInv, FacilitatorView!ChangeWallet PROVE FacilitatorInv'
<1>0. UNCHANGED <<service, changes, granted, place, opened, form>> /\ FacilitatorView!Incident /\ paired' = ~paired
  BY DEF FacilitatorView!ChangeWallet, FacilitatorView!facilitatorVars
<1> DEFINE n == Len(service)
           c == changes
<1>1. QueryOk(query, n, c) /\ OpenedOk(query, opened, n, c) /\ n \in Nat /\ c \in Nat
  BY ServicesKnown
<1> HIDE DEF n, c
<1>2. PICK w : w = paired'
  OBVIOUS
<1>3. PICK r : r = FacilitatorView!AskAll(place, w, query)
  OBVIOUS
<1>4. query' = r
  BY <1>2, <1>3 DEF FacilitatorView!ChangeWallet
<1>5. QueryOk(r, n, c) /\ OpenedOk(r, opened, n, c)
  BY <1>1, <1>3, AskAllKept
<1>6. QueryOk(query', n, c) /\ OpenedOk(query', opened', n, c)
  BY <1>0, <1>4, <1>5
<1>7. place' \in FacilitatorPagesList /\ form' \in {"idle", "registering", "asking", "saving"}
  BY <1>0 DEF FacilitatorInv
<1>8. paired' \in BOOLEAN
  BY <1>0
<1> QED
  BY <1>0, <1>6, <1>7, <1>8, FacilitatorBrowses DEF n, c

\* A button; the facilitator grants nothing to a token of four parts.
LEMMA FacilitatorPresses ==
    ASSUME FacilitatorInv,
           \/ \E what \in {"createKey", "revokeKey", "webhook", "settlement", "register"} : FacilitatorView!Press(what)
           \/ FacilitatorView!Pressed \/ FacilitatorView!NotRegistered
    PROVE  FacilitatorInv'
<1>1. ~FacilitatorView!Authorized
  <2>1. Len(FacilitatorView!TokenParts) = 4
    BY DEF FacilitatorView!TokenParts
  <2> QED
    BY <2>1 DEF FacilitatorView!Authorized, FacilitatorView!Verified
<1>2. /\ UNCHANGED <<service, changes, paired, place, opened, query, setbacks>>
      /\ form' \in {"idle", "registering", "asking", "saving"}
      /\ granted' = granted \/ granted' = (granted \/ FacilitatorView!Authorized)
  <2>1. ASSUME NEW what \in {"createKey", "revokeKey", "webhook", "settlement", "register"}, FacilitatorView!Press(what)
        PROVE  /\ UNCHANGED <<service, changes, paired, place, opened, query, setbacks, granted>>
               /\ form' \in {"idle", "registering", "asking", "saving"}
    BY <2>1 DEF FacilitatorView!Press, FacilitatorView!facilitatorVars
  <2>2. CASE FacilitatorView!Pressed
    BY <1>1, <2>2 DEF FacilitatorView!Pressed
  <2>3. CASE FacilitatorView!NotRegistered
    BY <2>3 DEF FacilitatorView!NotRegistered, FacilitatorView!facilitatorVars
  <2> QED
    BY <2>1, <2>2, <2>3
<1>3. granted' = FALSE
  BY <1>1, <1>2 DEF FacilitatorInv
<1> QED
  BY <1>2, <1>3, Zenon DEF FacilitatorInv

LEMMA FacilitatorRegisters ==
    ASSUME FacilitatorInv, FacilitatorView!Registered PROVE FacilitatorInv'
<1>0. UNCHANGED <<service, changes, granted, paired, setbacks>> /\ form' = "idle"
      /\ FacilitatorView!Show("services", FacilitatorView!NoService)
  BY DEF FacilitatorView!Registered, FacilitatorView!facilitatorVars
<1>1. OpenedOk(query, FacilitatorView!NoService, Len(service), changes)
  BY ServicesKnown, NoneOpened
<1>2. place' = "services" /\ QueryOk(query', Len(service), changes) /\ OpenedOk(query', opened', Len(service), changes)
  BY <1>0, <1>1, FacilitatorShows
<1>3. paired' \in BOOLEAN /\ place' \in FacilitatorPagesList
  BY <1>0, <1>2 DEF FacilitatorInv, FacilitatorPagesList
<1> QED
  BY <1>0, <1>2, <1>3, FacilitatorBrowses

LEMMA FacilitatorStep ==
    ASSUME FacilitatorInv, [FacilitatorView!FacilitatorPagesNext]_(FacilitatorView!facilitatorPageVars) PROVE FacilitatorInv'
<1>1. CASE FacilitatorView!FacilitatorPagesNext
  <2>1. ASSUME NEW p \in {"services", "new", "discover", "trending", "merchant", "settlements", "transactions", "settings"},
               FacilitatorView!Open(p)
        PROVE  FacilitatorInv'
    BY <2>1, FacilitatorOpens DEF FacilitatorPagesList
  <2> QED
    BY <1>1, <2>1, FacilitatorCreates, FacilitatorCounts, FacilitatorFollows, FacilitatorFetches, FacilitatorAnswers,
       FacilitatorReceives, FacilitatorReloads, FacilitatorChanges, FacilitatorPresses, FacilitatorRegisters
    DEF FacilitatorView!FacilitatorPagesNext
<1>2. CASE UNCHANGED FacilitatorView!facilitatorPageVars
  <2>1. UNCHANGED <<service, changes, granted, paired, place, opened, query, form, setbacks>>
    BY <1>2 DEF FacilitatorView!facilitatorPageVars, FacilitatorView!facilitatorVars
  <2> QED
    BY <2>1, Zenon DEF FacilitatorInv
<1> QED
  BY <1>1, <1>2

LEMMA FacilitatorBegins ==
    ASSUME FacilitatorView!Init PROVE FacilitatorInv
<1>1. /\ service = <<>> /\ changes = 0 /\ granted = FALSE /\ paired \in BOOLEAN /\ place = "new"
      /\ opened = FacilitatorView!NoService /\ query = [k \in FacilitatorView!Keys |-> FacilitatorView!Idle]
      /\ form = "idle" /\ setbacks = 0
  BY DEF FacilitatorView!Init
<1>2. Len(service) = 0 /\ ServicesOk(service, changes)
  BY <1>1 DEF ServicesOk
<1>3. QueryOk(query, 0, 0)
  BY <1>1, CacheBegins
<1>4. OpenedOk(query, opened, 0, 0)
  BY <1>1, <1>3, NoneOpened
<1>5. place \in FacilitatorPagesList /\ form \in {"idle", "registering", "asking", "saving"} /\ setbacks \in 0..1 /\ granted = FALSE
  BY <1>1 DEF FacilitatorPagesList
<1> QED
  BY <1>1, <1>2, <1>3, <1>4, <1>5, Zenon DEF FacilitatorInv

LEMMA FacilitatorKept ==
    ASSUME FacilitatorInv PROVE FacilitatorView!FacilitatorPagesSound
<1>1. QueryOk(query, Len(service), changes) /\ OpenedOk(query, opened, Len(service), changes) /\ granted = FALSE
      /\ Len(service) \in 0..1
  BY ServicesKnown DEF FacilitatorInv
<1>2. FacilitatorView!NothingPrivate
  <2>1. ASSUME NEW k \in FacilitatorView!Keys PROVE query[k].data.kind # "private"
    <3>1. Held(query, query[k].data)
      BY DEF Held
    <3>2. query[k].data \in FacilitatorValue
      BY <1>1, <3>1 DEF QueryOk, ValueOk
    <3> QED
      BY <3>2 DEF FacilitatorValue
  <2> QED
    BY <1>1, <2>1 DEF FacilitatorView!NothingPrivate
<1>3. FacilitatorView!LinkFound
  <2>1. PICK x : x = query["all-services"].data
    OBVIOUS
  <2>2. Held(query, x)
    BY <2>1 DEF Held, FacilitatorView!Keys, FacilitatorView!Public
  <2>3. x = FacilitatorView!Nothing \/ x.kind = "list"
    BY <1>1, <2>1 DEF QueryOk
  <2>4. x.upto \in Nat /\ x.version \in Nat
    BY <1>1, <2>2 DEF QueryOk, ValueOk, FacilitatorValue
  <2>5. opened \in [id : 0..1, version : 0..2] /\ FindsOpened(x, opened)
    BY <1>1, <2>2 DEF OpenedOk
  <2>6. PICK i \in 0..1, v \in 0..2 : i = opened.id /\ v = opened.version
    BY <2>5
  <2>7. ASSUME i # 0, x # FacilitatorView!Nothing, x.version >= v PROVE i \in 1..x.upto
    <3>1. i <= x.upto
      BY <2>3, <2>5, <2>6, <2>7 DEF FindsOpened
    <3> QED
      BY <2>4, <2>6, <2>7, <3>1
  <2> QED
    BY <2>1, <2>6, <2>7 DEF FacilitatorView!LinkFound
<1> QED
  BY <1>2, <1>3 DEF FacilitatorView!FacilitatorPagesSound

LEMMA FacilitatorTyped ==
    ASSUME FacilitatorInv PROVE FacilitatorView!TypeOK
<1>1. /\ service \in Seq([own : BOOLEAN, calls : Nat]) /\ Len(service) <= 1 /\ changes \in 0..2
      /\ \A i \in DOMAIN service : service[i].calls <= changes
      /\ granted = FALSE /\ paired \in BOOLEAN /\ place \in FacilitatorPagesList
      /\ form \in {"idle", "registering", "asking", "saving"} /\ setbacks \in 0..1
      /\ QueryOk(query, Len(service), changes) /\ OpenedOk(query, opened, Len(service), changes)
  BY DEF FacilitatorInv, ServicesOk
<1>2. service \in Seq([own : BOOLEAN, calls : 0..2])
  <2> DEFINE S == [own : BOOLEAN, calls : Nat]
             T == [own : BOOLEAN, calls : 0..2]
  <2>1. service \in Seq(S)
    BY <1>1
  <2>2. ASSUME NEW i \in DOMAIN service PROVE service[i] \in T
    <3> HIDE DEF S, T
    <3>1. service[i] \in S
      BY <2>1
    <3> USE DEF S, T
    <3>2. PICK w \in BOOLEAN, c \in Nat : service[i] = [own |-> w, calls |-> c]
      BY <3>1
    <3>3. c \in 0..2
      BY <1>1, <3>2
    <3> QED
      BY <3>2, <3>3
  <2> HIDE DEF S, T
  <2>3. service \in Seq(T)
    BY <2>1, <2>2
  <2> QED
    BY <2>3 DEF T
<1>3. opened \in [id : 0..1, version : 0..2]
  BY <1>1 DEF OpenedOk
<1>4. ASSUME NEW k \in FacilitatorView!Keys
      PROVE  /\ query[k].pc \in {"idle", "asked", "answered"}
             /\ query[k].data.kind \in {"none", "list", "ranks", "empty", "private"}
             /\ query[k].answer.kind \in {"none", "list", "ranks", "empty", "private"}
  <2>1. query[k] \in EntryType
    BY <1>1 DEF QueryOk
  <2>2. query[k].pc \in {"idle", "asked", "answered"} /\ query[k].data \in FacilitatorValue /\ query[k].answer \in FacilitatorValue
    BY <2>1 DEF EntryType
  <2> QED
    BY <2>2 DEF FacilitatorValue
<1>5. granted \in BOOLEAN
  <2>1. granted = FALSE
    BY <1>1
  <2> QED
    BY <2>1
<1> QED
  BY <1>1, <1>2, <1>3, <1>4, <1>5, Zenon DEF FacilitatorView!TypeOK, FacilitatorPagesList

-----------------------------------------------------------------------------
\* ExecutionPlans: the chain executor

\* A chain that has met no error has called its steps one after the other, each after
\* those that it depends on.
InOrder(c) ==
    /\ c.executed = 1..c.called
    /\ \A s \in 1..c.called : Planning!DepsOf(s) \subseteq 1..(s - 1)

\* The chain executor, with what ChainSound says of chains that succeed
PlanningInv ==
    /\ Planning!TypeOK
    /\ chain.pc = "new" => chain.called = 0 /\ chain.executed = {} /\ chain.errors = 0
    /\ chain.pc = "running" => chain.errors <= chain.called
    /\ chain.errors = 0 => InOrder(chain)
    /\ chain.pc = "returned" /\ chain.errors = 0 => chain.called = Len(task.deps)

LEMMA TasksShaped ==
    ASSUME NEW t \in MCTasks
    PROVE  \E n \in 1..3 : GraphShape(t.deps, n) /\ t.time \in [1..3 -> {1, 2}]
<1>1. t.deps \in Dependencies \cup Malformed
  <2> HIDE DEF Dependencies, Malformed
  <2> QED
    BY DEF MCTasks
<1>2. t.time \in [1..3 -> {1, 2}] \/ t.time = <<1, 2, 2>>
  <2> HIDE DEF Dependencies, Malformed
  <2> QED
    BY DEF MCTasks
<1>3. <<1, 2, 2>> \in [1..3 -> {1, 2}]
  OBVIOUS
<1> QED
  BY <1>1, <1>2, <1>3, GraphsShaped

\* One step of the chain
LEMMA ChainMoves ==
    ASSUME PlanningInv, UNCHANGED <<task, strategy>>,
           NEW p \in {"new", "running", "returned"}, NEW c \in 0..Len(task.deps),
           NEW e \in SUBSET Planning!Ids, NEW x \in 0..Len(task.deps),
           chain' = [pc |-> p, called |-> c, executed |-> e, errors |-> x],
           p # "new", p = "running" => x <= c,
           x = 0 => e = 1..c /\ \A s \in 1..c : Planning!DepsOf(s) \subseteq 1..(s - 1),
           p = "returned" /\ x = 0 => c = Len(task.deps)
    PROVE  PlanningInv'
<1>1. chain'.pc = p /\ chain'.called = c /\ chain'.executed = e /\ chain'.errors = x
  OBVIOUS
<1>2. Planning!TypeOK'
  BY DEF PlanningInv, Planning!TypeOK, Planning!Ids
<1>3. \A s : Planning!DepsOf(s)' = Planning!DepsOf(s)
  BY DEF Planning!DepsOf, Planning!DependsOn, Planning!Range
<1>4. chain'.errors = 0 => InOrder(chain)'
  BY <1>1, <1>3 DEF InOrder
<1> QED
  BY <1>1, <1>2, <1>4 DEF PlanningInv

LEMMA ChainStep ==
    ASSUME PlanningInv, [Planning!NextPlan]_planVars PROVE PlanningInv'
<1>1. CASE UNCHANGED planVars
  <2>1. UNCHANGED <<task, strategy, chain>>
    BY <1>1 DEF planVars
  <2>2. \A s : Planning!DepsOf(s)' = Planning!DepsOf(s)
    BY <2>1 DEF Planning!DepsOf, Planning!DependsOn, Planning!Range
  <2>3. InOrder(chain)' <=> InOrder(chain)
    BY <2>1, <2>2 DEF InOrder
  <2>4. Planning!TypeOK'
    BY <2>1 DEF PlanningInv, Planning!TypeOK, Planning!Ids
  <2> QED
    BY <2>1, <2>3, <2>4 DEF PlanningInv
<1>2. CASE Planning!NextPlan
  <2>1. PICK n \in 1..3 : GraphShape(task.deps, n)
    BY TasksShaped DEF PlanningInv, Planning!TypeOK
  <2>2. /\ Len(task.deps) = n /\ n \in Nat /\ n >= 1 /\ Planning!Ids = 1..n
        /\ chain = [pc |-> chain.pc, called |-> chain.called, executed |-> chain.executed,
                    errors |-> chain.errors]
        /\ chain.pc \in {"new", "running", "returned"}
        /\ chain.called \in 0..n /\ chain.errors \in 0..n /\ chain.executed \in SUBSET (1..n)
    BY <2>1 DEF GraphShape, PlanningInv, Planning!TypeOK, Planning!Ids
  <2>3. CASE Planning!BeginChain
    <3>1. UNCHANGED <<task, strategy>> /\ chain.pc = "new"
      BY <2>3 DEF Planning!BeginChain
    <3>2. chain.called = 0 /\ chain.executed = {} /\ chain.errors = 0
      BY <3>1 DEF PlanningInv
    <3>3. CASE chain' = [chain EXCEPT !.pc = "running"]
      <4>1. chain' = [pc |-> "running", called |-> 0, executed |-> {}, errors |-> 0]
        BY <2>2, <3>2, <3>3
      <4>2. 0 \in 0..Len(task.deps) /\ {} = 1..0 /\ {} \in SUBSET Planning!Ids /\ 0 <= 0
        BY <2>2
      <4>3. \A r \in 1..0 : Planning!DepsOf(r) \subseteq 1..(r - 1)
        OBVIOUS
      <4> QED
        BY <3>1, <4>1, <4>2, <4>3, ChainMoves
    <3>4. CASE chain' = [chain EXCEPT !.pc = "returned", !.errors = 1]
      <4>1. chain' = [pc |-> "returned", called |-> 0, executed |-> {}, errors |-> 1]
        BY <2>2, <3>2, <3>4
      <4> QED
        BY <2>2, <3>1, <4>1, ChainMoves
    <3> QED
      BY <2>3, <3>3, <3>4 DEF Planning!BeginChain
  <2>4. CASE Planning!EndChain
    <3>1. UNCHANGED <<task, strategy>> /\ chain.pc = "running" /\ chain.called = n
          /\ chain' = [chain EXCEPT !.pc = "returned"]
      BY <2>2, <2>4 DEF Planning!EndChain
    <3>2. chain' = [pc |-> "returned", called |-> chain.called, executed |-> chain.executed,
                    errors |-> chain.errors]
      BY <2>2, <3>1
    <3>3. chain.errors = 0 => InOrder(chain)
      BY DEF PlanningInv
    <3> QED
      BY <2>2, <3>1, <3>2, <3>3, ChainMoves DEF InOrder
  <2>5. CASE Planning!CallStep
    <3> DEFINE s == chain.called + 1
    <3>1. UNCHANGED <<task, strategy>> /\ chain.pc = "running" /\ chain.called < n
      BY <2>2, <2>5 DEF Planning!CallStep
    <3>2. s \in 1..n /\ chain.errors <= chain.called /\ (chain.errors = 0 => InOrder(chain))
      BY <2>2, <3>1 DEF PlanningInv
    <3>3. CASE Planning!CanExecute(s) /\ Planning!Answered(s)
      <4>1. chain' = [pc |-> "running", called |-> s, executed |-> chain.executed \cup {s},
                      errors |-> chain.errors]
        BY <2>2, <3>1, <3>3 DEF Planning!Answered
      <4>2. chain.errors = 0 => chain.executed \cup {s} = 1..s
        BY <2>2, <3>2 DEF InOrder
      <4>3. ASSUME chain.errors = 0, NEW r \in 1..s PROVE Planning!DepsOf(r) \subseteq 1..(r - 1)
        <5>1. CASE r = s
          <6>1. chain.executed = 1..(s - 1)
            BY <2>2, <3>2, <4>3 DEF InOrder
          <6> QED
            BY <3>3, <5>1, <6>1 DEF Planning!CanExecute
        <5>2. CASE r # s
          <6>1. r \in 1..chain.called
            BY <2>2, <4>3, <5>2
          <6> QED
            BY <3>2, <4>3, <6>1 DEF InOrder
        <5> QED
          BY <5>1, <5>2
      <4>4. chain.executed \cup {s} \in SUBSET (1..n) /\ s \in 0..n /\ chain.errors <= s
        BY <2>2, <3>2
      <4> HIDE DEF s
      <4> QED
        BY <2>2, <3>1, <4>1, <4>2, <4>3, <4>4, ChainMoves
    <3>4. CASE Planning!NotAnswered(s)
      <4>1. PICK q : q = IF strategy = "abort" THEN "returned" ELSE "running"
        OBVIOUS
      <4>2. chain' = [pc |-> q, called |-> s, executed |-> chain.executed,
                      errors |-> chain.errors + 1]
        BY <2>2, <3>1, <3>4, <4>1 DEF Planning!NotAnswered
      <4>3. /\ q \in {"new", "running", "returned"} /\ q # "new" /\ s \in 0..n
            /\ chain.errors + 1 \in 0..n /\ chain.errors + 1 <= s /\ chain.errors + 1 # 0
        BY <2>2, <3>2, <4>1
      <4> HIDE DEF s
      <4> QED
        BY <2>2, <3>1, <4>2, <4>3, ChainMoves
    <3> QED
      BY <2>5, <3>3, <3>4 DEF Planning!CallStep
  <2> QED
    BY <1>2, <2>3, <2>4, <2>5 DEF Planning!NextPlan
<1> QED
  BY <1>1, <1>2

LEMMA ChainBegins == ASSUME Planning!InitPlan PROVE PlanningInv
<1>1. PICK n \in 1..3 : GraphShape(task.deps, n)
  BY TasksShaped DEF Planning!InitPlan
<1>2. Len(task.deps) = n /\ n \in Nat
  BY <1>1 DEF GraphShape
<1>3. chain = [pc |-> "new", called |-> 0, executed |-> {}, errors |-> 0]
  BY DEF Planning!InitPlan
<1>4. Planning!TypeOK
  BY <1>2, <1>3 DEF Planning!InitPlan, Planning!TypeOK
<1>5. InOrder(chain)
  BY <1>3 DEF InOrder
<1> QED
  BY <1>3, <1>4, <1>5 DEF PlanningInv

-----------------------------------------------------------------------------
\* ExecutionPlans: detectCycle, which visits the steps in depth-first order. As with the agents'
\* sort, what a visit does is a recursive function of the steps whose dependencies are being
\* visited.
LEMMA SameVisits ==
    ASSUME NEW visit, NEW search, NEW seq
    PROVE  Planning!VisitAll(visit, search, seq) = FoldOf(visit, DOMAIN visit, search, seq)
BY DEF Planning!VisitAll, Planning!FoldLeft, Planning!MapThenFoldSet, Planning!Max,
       FoldOf, Agents!FoldLeft, Agents!MapThenFoldSet, Agents!Max

\* What visiting a step does, when deeper is what visiting the next ones does
SearchOf(deeper, A, search, s) ==
    LET entered == [search EXCEPT !.visited = @ \cup {s}]
    IN  IF search.cycle THEN search
        ELSE IF s \in A \cup search.visited
             THEN [search EXCEPT !.cycle = s \in A \/ s \notin Planning!Ids]
        ELSE IF s \in Planning!Ids THEN Planning!VisitAll(deeper, entered, task.deps[s])
        ELSE entered

SearchBody(visit, A) ==
    [s \in Nat |-> [search \in Planning!Search |-> SearchOf(visit[A \cup {s}], A, search, s)]]

IsSearch(visit, S) == visit = [A \in S |-> SearchBody(visit, A)]

\* The sets of steps that are being visited below A
Paths(A) == {B \in SUBSET Planning!Ids : A \subseteq B}

LEMMA SearchBodySame ==
    ASSUME NEW u, NEW v, NEW A, \A s \in Planning!Ids \ A : u[A \cup {s}] = v[A \cup {s}]
    PROVE  SearchBody(u, A) = SearchBody(v, A)
<1>1. ASSUME NEW search, NEW s \in Nat
      PROVE  SearchOf(u[A \cup {s}], A, search, s) = SearchOf(v[A \cup {s}], A, search, s)
  <2>1. CASE s \in A \/ s \notin Planning!Ids
    BY <2>1, Zenon DEF SearchOf
  <2>2. CASE s \in Planning!Ids \ A
    <3>1. u[A \cup {s}] = v[A \cup {s}]
      BY <2>2
    <3> QED
      BY <3>1, Zenon
  <2> QED
    BY <2>1, <2>2
<1> QED
  BY <1>1, Zenon DEF SearchBody

LEMMA SearchesAgree ==
    ASSUME IsFiniteSet(Planning!Ids), NEW A \in SUBSET Planning!Ids, NEW B \in SUBSET Planning!Ids, NEW a, NEW b,
           IsSearch(a, Paths(A)), IsSearch(b, Paths(B)), NEW C \in Paths(A), C \in Paths(B)
    PROVE  a[C] = b[C]
<1> DEFINE Rest(D) == Planning!Ids \ D
           Bad == {t \in SUBSET Planning!Ids : /\ Rest(t) \in Paths(A) /\ Rest(t) \in Paths(B)
                                             /\ a[Rest(t)] # b[Rest(t)]}
<1>1. Bad = {}
  <2> SUFFICES ASSUME Bad # {} PROVE FALSE
    OBVIOUS
  <2>1. PICK m \in Bad : \A t \in Bad : ~(t \subseteq m /\ t # m)
    <3> HIDE DEF Bad
    <3>1. Bad \in SUBSET (SUBSET Planning!Ids)
      BY DEF Bad
    <3> QED
      BY <3>1, SmallestSet
  <2> DEFINE M == Rest(m)
  <2>2. M \in Paths(A) /\ M \in Paths(B) /\ a[M] # b[M]
    OBVIOUS
  <2>3. ASSUME NEW s \in Planning!Ids \ M PROVE a[M \cup {s}] = b[M \cup {s}]
    <3> DEFINE t == m \ {s}
    <3>1. s \in m /\ t \in SUBSET Planning!Ids /\ t \subseteq m /\ t # m /\ Rest(t) = M \cup {s}
      OBVIOUS
    <3>2. M \cup {s} \in Paths(A) /\ M \cup {s} \in Paths(B)
      BY <2>2 DEF Paths
    <3> QED
      BY <2>1, <3>1, <3>2
  <2> HIDE DEF M
  <2>4. a[M] = SearchBody(a, M) /\ b[M] = SearchBody(b, M)
    BY <2>2 DEF IsSearch
  <2>5. SearchBody(a, M) = SearchBody(b, M)
    BY <2>3, SearchBodySame
  <2> QED
    BY <2>2, <2>4, <2>5
<1>2. Rest(C) \in SUBSET Planning!Ids /\ Rest(Rest(C)) = C
  BY DEF Paths
<1> QED
  BY <1>1, <1>2

LEMMA SearchExists ==
    ASSUME IsFiniteSet(Planning!Ids), NEW A \in SUBSET Planning!Ids
    PROVE  \E v : IsSearch(v, Paths(A))
<1> DEFINE Rest(D) == Planning!Ids \ D
           Bad == {t \in SUBSET Planning!Ids : ~ \E v : IsSearch(v, Paths(Rest(t)))}
<1>1. Bad = {}
  <2> SUFFICES ASSUME Bad # {} PROVE FALSE
    OBVIOUS
  <2>1. PICK m \in Bad : \A t \in Bad : ~(t \subseteq m /\ t # m)
    <3> HIDE DEF Bad
    <3>1. Bad \in SUBSET (SUBSET Planning!Ids)
      BY DEF Bad
    <3> QED
      BY <3>1, SmallestSet
  <2> DEFINE M == Rest(m)
             It(B) == CHOOSE v : IsSearch(v, Paths(B))
             W == [B \in Paths(M) |-> It(B)[B]]
             G == [B \in Paths(M) |-> SearchBody(W, B)]
  <2>2. M \in SUBSET Planning!Ids /\ ~ \E v : IsSearch(v, Paths(M))
    OBVIOUS
  <2>3. ASSUME NEW B \in Paths(M), B # M PROVE IsSearch(It(B), Paths(B))
    <3>1. B \in SUBSET Planning!Ids /\ M \subseteq B
      BY DEF Paths
    <3>2. Rest(B) \in SUBSET Planning!Ids /\ Rest(B) \subseteq m /\ Rest(B) # m /\ Rest(Rest(B)) = B
      BY <3>1, <2>3
    <3>3. Rest(B) \notin Bad
      BY <2>1, <3>2
    <3>4. \E v : IsSearch(v, Paths(B))
      BY <3>2, <3>3
    <3> QED
      BY <3>4
  <2>4. ASSUME NEW B \in Paths(M), B # M PROVE It(B)[B] = G[B]
    <3>1. B \in SUBSET Planning!Ids /\ M \subseteq B /\ B \in Paths(B)
      BY DEF Paths
    <3>2. It(B)[B] = SearchBody(It(B), B)
      <4>1. IsSearch(It(B), Paths(B))
        BY <2>3, <2>4
      <4> HIDE DEF It
      <4> QED
        BY <3>1, <4>1 DEF IsSearch
    <3>3. ASSUME NEW s \in Planning!Ids \ B PROVE It(B)[B \cup {s}] = W[B \cup {s}]
      <4> DEFINE D == B \cup {s}
      <4>1. D \in Paths(M) /\ D # M /\ D \in Paths(B) /\ D \in Paths(D) /\ D \in SUBSET Planning!Ids
        BY <3>1 DEF Paths
      <4>2. IsSearch(It(B), Paths(B)) /\ IsSearch(It(D), Paths(D))
        BY <2>3, <2>4, <4>1
      <4>3. W[D] = It(D)[D]
        BY <4>1
      <4>4. It(B)[D] = It(D)[D]
        <5> HIDE DEF It, D, M
        <5> QED
          BY <3>1, <4>1, <4>2, SearchesAgree
      <4> HIDE DEF It
      <4> QED
        BY <4>3, <4>4
    <3>4. SearchBody(It(B), B) = SearchBody(W, B)
      <4> HIDE DEF It, W
      <4> QED
        BY <3>3, SearchBodySame
    <3> QED
      BY <3>2, <3>4
  <2>5. ASSUME NEW B \in Paths(M) PROVE G[B] = SearchBody(G, B)
    <3>1. ASSUME NEW s \in Planning!Ids \ B PROVE W[B \cup {s}] = G[B \cup {s}]
      <4> DEFINE D == B \cup {s}
      <4>1. D \in Paths(M) /\ D # M
        BY DEF Paths
      <4>2. W[D] = It(D)[D]
        BY <4>1
      <4>3. It(D)[D] = G[D]
        BY <2>4, <4>1
      <4> HIDE DEF It, G, W
      <4> QED
        BY <4>2, <4>3
    <3>2. G[B] = SearchBody(W, B)
      OBVIOUS
    <3> HIDE DEF G, W
    <3>3. SearchBody(W, B) = SearchBody(G, B)
      BY <3>1, SearchBodySame
    <3> QED
      BY <3>2, <3>3
  <2>6. IsSearch(G, Paths(M))
    <3>1. G = [B \in Paths(M) |-> G[B]]
      OBVIOUS
    <3> HIDE DEF G, M
    <3> QED
      BY <2>5, <3>1 DEF IsSearch
  <2> QED
    BY <2>2, <2>6
<1>2. Rest(A) \in SUBSET Planning!Ids /\ Rest(Rest(A)) = A
  OBVIOUS
<1> QED
  BY <1>1, <1>2

\* What Visit does, whatever is being visited
LEMMA SearchUnfold ==
    ASSUME IsFiniteSet(Planning!Ids), NEW A \in SUBSET Planning!Ids,
           NEW search \in Planning!Search, NEW s \in Nat
    PROVE  /\ Planning!Visit[A][s][search] = SearchOf(Planning!Visit[A \cup {s}], A, search, s)
           /\ DOMAIN Planning!Visit[A] = Nat
<1>1. Paths({}) = SUBSET Planning!Ids /\ {} \in SUBSET Planning!Ids
  BY DEF Paths
<1>2. Planning!Visit = CHOOSE v : IsSearch(v, SUBSET Planning!Ids)
  BY Zenon DEF Planning!Visit, IsSearch, SearchBody, SearchOf
<1>3. \E v : IsSearch(v, SUBSET Planning!Ids)
  <2>1. \E v : IsSearch(v, Paths({}))
    BY <1>1, SearchExists
  <2> QED
    BY <1>1, <2>1, Zenon
<1>4. IsSearch(Planning!Visit, SUBSET Planning!Ids)
  BY <1>2, <1>3, Zenon
<1>5. Planning!Visit[A] = SearchBody(Planning!Visit, A)
  BY <1>4 DEF IsSearch
<1> QED
  BY <1>5 DEF SearchBody
-----------------------------------------------------------------------------
\* The steps that were visited and are not being visited: their dependencies are
\* among them, and none depends on itself through others.
Finished(A, r) == (r.visited \cap Planning!Ids) \ A
Clean(F) ==
    /\ \A t \in F : Planning!DepsOf(t) \cap Planning!Ids \subseteq F
    /\ \A S \in (SUBSET F) \ {{}} : \E t \in S : Planning!DepsOf(t) \cap S = {}

\* What a visit makes of an earlier search, while the steps of A are being visited
Searched(A, search, r) ==
    /\ r \in Planning!Search
    /\ r.cycle => (Planning!NoUnknown => ~Planning!Acyclic)
    /\ ~r.cycle => /\ ~search.cycle
                   /\ search.visited \subseteq r.visited
                   /\ A \subseteq r.visited
                   /\ Clean(Finished(A, r))

Explored(A, search, s, r) == Searched(A, search, r) /\ (~r.cycle => s \in r.visited \ A)

LEMMA SearchedTrans ==
    ASSUME NEW A, NEW a, NEW b, NEW c, Searched(A, a, b), Searched(A, b, c)
    PROVE  Searched(A, a, c)
BY Zenon DEF Searched

\* A step that is finished after those that it depends on
LEMMA CleanGrows ==
    ASSUME NEW F \in SUBSET Planning!Ids, Clean(F), NEW s \in Planning!Ids, s \notin F,
           Planning!DepsOf(s) \cap Planning!Ids \subseteq F
    PROVE  Clean(F \cup {s})
<1>1. \A t \in F \cup {s} : Planning!DepsOf(t) \cap Planning!Ids \subseteq F
  BY DEF Clean
<1>2. ASSUME NEW S \in SUBSET (F \cup {s}), S # {} PROVE \E t \in S : Planning!DepsOf(t) \cap S = {}
  <2>1. \A t \in S : Planning!DepsOf(t) \cap S \subseteq F
    BY <1>1
  <2>2. CASE S \cap F = {}
    BY <1>2, <2>1, <2>2
  <2>3. CASE S \cap F # {}
    <3>1. PICK t \in S \cap F : Planning!DepsOf(t) \cap (S \cap F) = {}
      BY <2>3 DEF Clean
    <3> QED
      BY <2>1, <3>1
  <2> QED
    BY <2>2, <2>3
<1> QED
  BY <1>1, <1>2 DEF Clean

\* The searches of a sequence of steps
LEMMA SearchesSound ==
    ASSUME NEW A, NEW visit, DOMAIN visit = Nat, NEW search, Searched(A, search, search),
           NEW n \in Nat, NEW seq, DOMAIN seq = 1..n, \A i \in 1..n : seq[i] \in Nat,
           \A i \in 1..n, r \in Planning!Search :
              Searched(A, search, r) => Explored(A, r, seq[i], visit[seq[i]][r])
    PROVE  LET r == Planning!VisitAll(visit, search, seq)
           IN  Searched(A, search, r) /\ (~r.cycle => \A i \in 1..n : seq[i] \in r.visited \ A)
<1>1. PICK g : /\ g[0] = search
               /\ \A i \in 0..(n - 1) : g[i + 1] = Follow(visit, Nat, g[i], seq[i + 1])
               /\ FoldOf(visit, Nat, search, seq) = g[n]
  BY FoldSteps
<1>2. Planning!VisitAll(visit, search, seq) = g[n]
  BY <1>1, SameVisits
<1> DEFINE Have(i) == ~g[i].cycle => \A j \in 1..i : seq[j] \in g[i].visited \ A
           T == {i \in 0..n : Searched(A, search, g[i]) /\ Have(i)}
<1>3. 0 \in T
  <2>1. Have(0)
    OBVIOUS
  <2> HIDE DEF Have
  <2> QED
    BY <1>1, <2>1
<1>4. ASSUME NEW i \in 0..(n - 1), i \in T PROVE i + 1 \in T
  <2>1. Searched(A, search, g[i]) /\ Have(i)
    BY <1>4
  <2>2. i + 1 \in 1..n /\ i + 1 \in 0..n /\ \A j \in 1..(i + 1) : j \in 1..i \/ j = i + 1
    OBVIOUS
  <2>3. g[i + 1] = visit[seq[i + 1]][g[i]]
    BY <1>1, <2>2 DEF Follow
  <2>4. g[i] \in Planning!Search
    BY <2>1, Zenon DEF Searched
  <2>5. Explored(A, g[i], seq[i + 1], g[i + 1])
    BY <2>1, <2>2, <2>3, <2>4
  <2>6. Searched(A, search, g[i + 1])
    BY <2>1, <2>5, SearchedTrans DEF Explored
  <2>7. Have(i + 1)
    <3>1. ~g[i + 1].cycle => ~g[i].cycle /\ g[i].visited \subseteq g[i + 1].visited
                             /\ seq[i + 1] \in g[i + 1].visited \ A
      BY <2>5, Zenon DEF Explored, Searched
    <3> QED
      BY <2>1, <2>2, <3>1
  <2> HIDE DEF Have
  <2> QED
    BY <2>2, <2>6, <2>7
<1>5. n \in T
  <2> HIDE DEF T
  <2>1. \A i \in 0..n : i \in T
    BY <1>3, <1>4, OneByOne
  <2> QED
    BY <2>1
<1> QED
  BY <1>2, <1>5

-----------------------------------------------------------------------------
\* The plan's steps are finitely many, and each has a sequence of dependencies.
ChainShaped ==
    /\ IsFiniteSet(Planning!Ids) /\ Planning!Ids \subseteq Nat
    /\ \A s \in Planning!Ids : \E k \in Nat : DOMAIN task.deps[s] = 1..k /\ task.deps[s] \in [1..k -> Nat]

\* Every step that is being visited depends on another one or on the next one.
Leads(A, s) == \A v \in A : Planning!DepsOf(v) \cap (A \cup {s}) # {}

SearchSound(A) ==
    \A s \in Nat, search \in Planning!Search :
       /\ Searched(A, search, search)
       /\ Leads(A, s)
       /\ s \in Planning!Ids \/ ~Planning!NoUnknown
       => Explored(A, search, s, Planning!Visit[A][s][search])

\* One step deeper
LEMMA SearchDeeper ==
    ASSUME ChainShaped, NEW A \in SUBSET Planning!Ids, NEW s \in Planning!Ids, s \in Nat, s \notin A,
           SearchSound(A \cup {s}), DOMAIN Planning!Visit[A \cup {s}] = Nat,
           NEW V \in SUBSET Nat, s \notin V, NEW search, search = [visited |-> V, cycle |-> FALSE],
           Searched(A, search, search), Leads(A, s),
           NEW entered, entered = [visited |-> V \cup {s}, cycle |-> FALSE]
    PROVE  Explored(A, search, s, Planning!VisitAll(Planning!Visit[A \cup {s}], entered, task.deps[s]))
<1> DEFINE B == A \cup {s}
           seq == task.deps[s]
           r == Planning!VisitAll(Planning!Visit[B], entered, seq)
<1>1. PICK k \in Nat : DOMAIN seq = 1..k /\ seq \in [1..k -> Nat]
  BY DEF ChainShaped
<1>2. Searched(B, entered, entered)
  <2>1. /\ entered.visited = V \cup {s} /\ ~entered.cycle /\ entered \in Planning!Search
        /\ search.visited = V /\ ~search.cycle
    BY DEF Planning!Search
  <2>2. Finished(B, entered) = Finished(A, search)
    BY <2>1 DEF Finished
  <2>3. A \subseteq V /\ Clean(Finished(A, search))
    BY <2>1 DEF Searched
  <2> QED
    BY <2>1, <2>2, <2>3 DEF Searched
<1>3. ASSUME NEW i \in 1..k, NEW q \in Planning!Search, Searched(B, entered, q)
      PROVE  Explored(B, q, seq[i], Planning!Visit[B][seq[i]][q])
  <2>1. Searched(B, q, q)
    BY <1>3 DEF Searched
  <2>2. seq[i] \in Planning!DepsOf(s) /\ seq[i] \in Nat
    BY <1>1 DEF Planning!DepsOf, Planning!DependsOn, Planning!Range
  <2>3. Leads(B, seq[i])
    BY <2>2 DEF Leads
  <2>4. seq[i] \in Planning!Ids \/ ~Planning!NoUnknown
    BY <2>2 DEF Planning!NoUnknown
  <2> QED
    BY <2>1, <2>2, <2>3, <2>4 DEF SearchSound
<1>4. Searched(B, entered, r) /\ (~r.cycle => \A i \in 1..k : seq[i] \in r.visited \ B)
  <2> HIDE DEF B, seq
  <2>1. \A i \in 1..k : seq[i] \in Nat
    BY <1>1
  <2> QED
    BY <1>1, <1>2, <1>3, <2>1, SearchesSound DEF B
<1> HIDE DEF r
<1>5. CASE r.cycle
  <2>1. r \in Planning!Search /\ (Planning!NoUnknown => ~Planning!Acyclic)
    BY <1>4, <1>5, Zenon DEF Searched
  <2> QED
    BY <1>5, <2>1 DEF Searched, Explored, r
<1>6. CASE ~r.cycle
  <2>1. /\ r \in Planning!Search /\ entered.visited \subseteq r.visited
        /\ B \subseteq r.visited /\ Clean(Finished(B, r))
    BY <1>4, <1>6, Zenon DEF Searched
  <2>2. \A d \in Planning!DepsOf(s) : d \in r.visited \ B
    BY <1>1, <1>4, <1>6 DEF Planning!DepsOf, Planning!DependsOn, Planning!Range
  <2>3. Finished(A, r) = Finished(B, r) \cup {s} /\ s \notin Finished(B, r)
    BY <2>1 DEF Finished
  <2>4. Planning!DepsOf(s) \cap Planning!Ids \subseteq Finished(B, r)
    BY <2>2 DEF Finished
  <2>5. Clean(Finished(A, r))
    <3>1. Finished(B, r) \in SUBSET Planning!Ids
      BY DEF Finished
    <3> QED
      BY <2>1, <2>3, <2>4, <3>1, CleanGrows
  <2>6. ~search.cycle /\ search.visited \subseteq r.visited /\ A \subseteq r.visited /\ s \in r.visited \ A
    BY <2>1
  <2>7. Searched(A, search, r)
    BY <1>6, <2>1, <2>5, <2>6 DEF Searched
  <2> QED
    BY <2>6, <2>7 DEF Explored, r
<1> QED
  BY <1>5, <1>6

LEMMA EnteredIs ==
    ASSUME NEW c, NEW V, NEW W
    PROVE  [[visited |-> V, cycle |-> c] EXCEPT !.visited = W] = [visited |-> W, cycle |-> c]
OBVIOUS

LEMMA SearchIsSound ==
    ASSUME ChainShaped, NEW A \in SUBSET Planning!Ids
    PROVE  SearchSound(A)
<1> DEFINE Rest(D) == Planning!Ids \ D
           Bad == {t \in SUBSET Planning!Ids : ~SearchSound(Rest(t))}
<1>1. Bad = {}
  <2> SUFFICES ASSUME Bad # {} PROVE FALSE
    OBVIOUS
  <2>1. PICK m \in Bad : \A t \in Bad : ~(t \subseteq m /\ t # m)
    <3> HIDE DEF Bad
    <3>1. Bad \in SUBSET (SUBSET Planning!Ids)
      BY DEF Bad
    <3>2. IsFiniteSet(Planning!Ids)
      BY DEF ChainShaped
    <3> QED
      BY <3>1, <3>2, SmallestSet
  <2> DEFINE M == Rest(m)
  <2>2. M \in SUBSET Planning!Ids /\ ~SearchSound(M)
    OBVIOUS
  <2>3. ASSUME NEW s \in Planning!Ids \ M PROVE SearchSound(M \cup {s})
    <3> DEFINE t == m \ {s}
    <3>1. s \in m /\ t \in SUBSET Planning!Ids /\ t \subseteq m /\ t # m /\ Rest(t) = M \cup {s}
      OBVIOUS
    <3> QED
      BY <2>1, <3>1
  <2> HIDE DEF M
  <2>4. ASSUME NEW s \in Nat, NEW search \in Planning!Search, Searched(M, search, search), Leads(M, s),
               s \in Planning!Ids \/ ~Planning!NoUnknown
        PROVE  Explored(M, search, s, Planning!Visit[M][s][search])
    <3>1. Planning!Visit[M][s][search] = SearchOf(Planning!Visit[M \cup {s}], M, search, s)
      BY <2>2, SearchUnfold DEF ChainShaped
    <3>2. CASE search.cycle
      <4>1. Planning!Visit[M][s][search] = search
        BY <3>1, <3>2, Zenon DEF SearchOf
      <4> QED
        BY <2>4, <3>2, <4>1 DEF Explored
    <3>3. CASE ~search.cycle
      <4>1. PICK V \in SUBSET Nat : search = [visited |-> V, cycle |-> FALSE]
        BY <3>3 DEF Planning!Search
      <4>2. search.visited = V /\ ~search.cycle /\ M \subseteq V /\ Clean(Finished(M, search))
        BY <2>4, <3>3, <4>1 DEF Searched
      <4> DEFINE found == [visited |-> V, cycle |-> TRUE]
                 entered == [visited |-> V \cup {s}, cycle |-> FALSE]
      <4>3. CASE s \in V /\ (s \in M \/ s \notin Planning!Ids)
        <5>1. Planning!Visit[M][s][search] = [search EXCEPT !.cycle = s \in M \/ s \notin Planning!Ids]
          BY <3>1, <4>2, <4>3, Zenon DEF SearchOf
        <5>2. (s \in M \/ s \notin Planning!Ids) = TRUE
          BY <4>3
        <5>3. Planning!Visit[M][s][search] = found
          BY <4>1, <5>1, <5>2
        <5>4. Planning!NoUnknown => ~Planning!Acyclic
          BY <2>2, <2>4, <4>3 DEF Planning!Acyclic, Leads
        <5>5. found \in Planning!Search /\ found.cycle
          BY DEF Planning!Search
        <5> QED
          BY <5>3, <5>4, <5>5 DEF Searched, Explored
      <4>4. CASE s \in V /\ s \notin M /\ s \in Planning!Ids
        <5>1. Planning!Visit[M][s][search] = [search EXCEPT !.cycle = s \in M \/ s \notin Planning!Ids]
          BY <3>1, <4>2, <4>4, Zenon DEF SearchOf
        <5>2. (s \in M \/ s \notin Planning!Ids) = FALSE
          BY <4>4
        <5>3. Planning!Visit[M][s][search] = search
          BY <4>1, <5>1, <5>2
        <5> QED
          BY <2>4, <4>2, <4>4, <5>3 DEF Explored
      <4>5. CASE s \notin V
        <5>1. s \notin M \cup search.visited
          BY <4>2, <4>5
        <5>2. [search EXCEPT !.visited = @ \cup {s}] = entered
          <6>1. PICK W : W = V \cup {s}
            OBVIOUS
          <6>2. [search EXCEPT !.visited = @ \cup {s}] = [search EXCEPT !.visited = W]
            BY <4>2, <6>1, Zenon
          <6>3. [search EXCEPT !.visited = W] = [visited |-> W, cycle |-> FALSE]
            BY <4>1, EnteredIs, Zenon
          <6> QED
            BY <6>1, <6>2, <6>3
        <5>3. CASE s \in Planning!Ids
          <6>1. Planning!Visit[M][s][search]
                  = Planning!VisitAll(Planning!Visit[M \cup {s}], [search EXCEPT !.visited = @ \cup {s}], task.deps[s])
            BY <3>1, <4>2, <5>1, <5>3, Zenon DEF SearchOf
          <6>2. Planning!Visit[M][s][search]
                  = Planning!VisitAll(Planning!Visit[M \cup {s}], entered, task.deps[s])
            BY <5>2, <6>1, Zenon
          <6>3. SearchSound(M \cup {s}) /\ s \notin M
            BY <2>3, <5>1, <5>3
          <6>4. DOMAIN Planning!Visit[M \cup {s}] = Nat
            <7>1. M \cup {s} \in SUBSET Planning!Ids
              BY <2>2, <5>3
            <7> QED
              BY <2>4, <7>1, SearchUnfold DEF ChainShaped
          <6> HIDE DEF entered
          <6>5. Explored(M, search, s, Planning!VisitAll(Planning!Visit[M \cup {s}], entered, task.deps[s]))
            BY <2>2, <2>4, <4>1, <4>5, <5>3, <6>3, <6>4, SearchDeeper DEF entered
          <6> QED
            BY <6>2, <6>5
        <5>4. CASE s \notin Planning!Ids
          <6>1. Planning!Visit[M][s][search] = [search EXCEPT !.visited = @ \cup {s}]
            BY <3>1, <4>2, <5>1, <5>4, Zenon DEF SearchOf
          <6>2. /\ entered \in Planning!Search /\ entered.visited = V \cup {s} /\ ~entered.cycle
                /\ Finished(M, entered) = Finished(M, search)
            BY <4>2, <5>4 DEF Planning!Search, Finished
          <6>3. Searched(M, search, entered) /\ s \in entered.visited \ M
            BY <4>2, <5>1, <6>2 DEF Searched
          <6> QED
            BY <5>2, <6>1, <6>3 DEF Explored
        <5> QED
          BY <5>3, <5>4
      <4> QED
        BY <4>3, <4>4, <4>5
    <3> QED
      BY <3>2, <3>3
  <2> QED
    BY <2>2, <2>4 DEF SearchSound
<1>2. Rest(A) \in SUBSET Planning!Ids /\ Rest(Rest(A)) = A
  OBVIOUS
<1> QED
  BY <1>1, <1>2

\* detectCycle misses no cycle, and finds no other when all dependencies exist.
LEMMA CyclesDetected ==
    ASSUME ChainShaped, NEW n \in Nat, Planning!Ids = 1..n
    PROVE  /\ ~Planning!Acyclic => Planning!DetectCycle
           /\ Planning!NoUnknown => (Planning!DetectCycle => ~Planning!Acyclic)
<1> DEFINE none == [visited |-> {}, cycle |-> FALSE]
           ids == [i \in Planning!Ids |-> i]
           r == Planning!VisitAll(Planning!Visit[{}], none, ids)
<1>1. DOMAIN ids = 1..n /\ (\A i \in 1..n : ids[i] = i /\ ids[i] \in Nat) /\ {} \in SUBSET Planning!Ids
  OBVIOUS
<1>2. Searched({}, none, none)
  <2>1. none \in Planning!Search /\ none.visited = {} /\ ~none.cycle
    BY DEF Planning!Search
  <2>2. Finished({}, none) = {}
    BY <2>1 DEF Finished
  <2>3. Clean({})
    BY DEF Clean
  <2> QED
    BY <2>1, <2>2, <2>3 DEF Searched
<1>3. ASSUME NEW i \in 1..n, NEW q \in Planning!Search, Searched({}, none, q)
      PROVE  Explored({}, q, ids[i], Planning!Visit[{}][ids[i]][q])
  <2>1. Searched({}, q, q)
    BY <1>3 DEF Searched
  <2>2. Leads({}, i) /\ i \in Nat /\ i \in Planning!Ids /\ ids[i] = i
    BY DEF Leads
  <2>3. SearchSound({})
    BY <1>1, SearchIsSound
  <2> QED
    BY <2>1, <2>2, <2>3 DEF SearchSound
<1>4. DOMAIN Planning!Visit[{}] = Nat
  <2>1. 0 \in Nat /\ none \in Planning!Search
    BY DEF Planning!Search
  <2> HIDE DEF none
  <2> QED
    BY <1>1, <2>1, SearchUnfold DEF ChainShaped
<1>5. Searched({}, none, r) /\ (~r.cycle => \A i \in 1..n : ids[i] \in r.visited \ {})
  <2> HIDE DEF none, ids
  <2> QED
    BY <1>1, <1>2, <1>3, <1>4, SearchesSound
<1>6. Planning!DetectCycle = r.cycle
  BY DEF Planning!DetectCycle
<1> HIDE DEF r
<1>7. r.cycle => (Planning!NoUnknown => ~Planning!Acyclic)
  BY <1>5, Zenon DEF Searched
<1>8. ASSUME ~r.cycle PROVE Planning!Acyclic
  <2>1. Clean(Finished({}, r))
    BY <1>5, <1>8, Zenon DEF Searched
  <2>2. Finished({}, r) = Planning!Ids
    BY <1>1, <1>5, <1>8 DEF Finished
  <2> QED
    BY <2>1, <2>2 DEF Clean, Planning!Acyclic
<1> QED
  BY <1>6, <1>7, <1>8

\* A chain that succeeds would have been found valid.
LEMMA SucceededValid ==
    ASSUME ChainShaped, NEW n \in Nat, Planning!Ids = 1..n, Len(task.deps) = n, PlanningInv
    PROVE  Planning!ChainSound
<1>1. SUFFICES ASSUME chain.pc = "returned", chain.errors = 0
               PROVE  chain.executed = Planning!Ids /\ Planning!ValidChain
  BY CyclesDetected DEF Planning!ChainSound
<1>2. chain.executed = 1..n /\ \A s \in 1..n : Planning!DepsOf(s) \subseteq 1..(s - 1)
  BY <1>1 DEF PlanningInv, InOrder
<1>3. Planning!NoUnknown
  BY <1>2 DEF Planning!NoUnknown
<1>4. ASSUME NEW S \in SUBSET Planning!Ids, S # {} PROVE \E s \in S : Planning!DepsOf(s) \cap S = {}
  <2>1. PICK s \in S : \A t \in S : s <= t
    BY <1>4, SmallestNumber
  <2> QED
    BY <1>2, <2>1
<1>5. Planning!Acyclic
  BY <1>4 DEF Planning!Acyclic
<1> QED
  BY <1>2, <1>3, <1>5, CyclesDetected DEF Planning!ValidChain

-----------------------------------------------------------------------------
\* The longest path to a step, which is a recursive function of those to the steps that it
\* depends on. For every plan that is sorted there is one, level after level.

\* The body of findLongestPath, when longest is what it returns for the other steps
LongestOf(longest, s) ==
    LET paths == [i \in {k \in DOMAIN task.deps[s] : task.deps[s][k] \in Planning!Ids} |->
                     longest[task.deps[s][i]]]
    IN  IF DOMAIN paths = {} THEN <<s>>
        ELSE Append(paths[Planning!FirstLargest([i \in DOMAIN paths |-> Len(paths[i])])], s)

AreLongest(longest, S) == longest = [s \in S |-> LongestOf(longest, s)]

LEMMA LongestSame ==
    ASSUME NEW u, NEW v, NEW s,
           \A d \in Planning!DepsOf(s) \cap Planning!Ids : u[d] = v[d]
    PROVE  LongestOf(u, s) = LongestOf(v, s)
<1> DEFINE K == {k \in DOMAIN task.deps[s] : task.deps[s][k] \in Planning!Ids}
           pu == [i \in K |-> u[task.deps[s][i]]]
           pv == [i \in K |-> v[task.deps[s][i]]]
<1>1. \A i \in K : u[task.deps[s][i]] = v[task.deps[s][i]]
  BY DEF Planning!DepsOf, Planning!DependsOn, Planning!Range
<1>2. pu = pv
  <2> HIDE DEF K
  <2> QED
    BY <1>1
<1> DEFINE G(p) == IF DOMAIN p = {} THEN <<s>>
                   ELSE Append(p[Planning!FirstLargest([i \in DOMAIN p |-> Len(p[i])])], s)
<1>3. LongestOf(u, s) = G(pu) /\ LongestOf(v, s) = G(pv)
  BY DEF LongestOf
<1> HIDE DEF pu, pv, G
<1> QED
  BY <1>2, <1>3

\* The rounds of a plan: each depends on those before.
LEMMA RoundsClosed ==
    ASSUME NEW deps, IsGraph(deps), NEW n \in DOMAIN Removed(deps), NEW s \in Removed(deps)[n]
    PROVE  DependsOn(deps, s) \subseteq Removed(deps)[n]
<1> DEFINE N == Cardinality(DOMAIN deps)
           r == Removed(deps)
<1>1. IsFiniteSet(DOMAIN deps)
  BY DEF IsGraph
<1>2. /\ N \in Nat /\ DOMAIN r = 0..N /\ r[0] = {}
      /\ \A i \in 0..(N - 1) : r[i + 1] = r[i] \cup NextLevel(deps, r[i])
  BY <1>1, RoundFacts
<1> DEFINE T == {i \in 0..N : \A x \in r[i] : DependsOn(deps, x) \subseteq r[i]}
<1> HIDE DEF r, N
<1>3. 0 \in T
  BY <1>2
<1>4. ASSUME NEW i \in 0..(N - 1), i \in T PROVE i + 1 \in T
  <2>1. i \in DOMAIN r /\ i + 1 \in 0..N
    BY <1>2
  <2>2. \A x \in NextLevel(deps, r[i]) : DependsOn(deps, x) \subseteq r[i]
    BY <2>1, LevelSound DEF r
  <2> QED
    BY <1>2, <1>4, <2>1, <2>2
<1>5. \A i \in 0..N : i \in T
  <2> HIDE DEF T
  <2> QED
    BY <1>2, <1>3, <1>4, OneByOne
<1> QED
  BY <1>2, <1>5 DEF r, N

LEMMA LongestExist ==
    ASSUME IsGraph(task.deps), Sortable(task.deps)
    PROVE  \A s \in Planning!Ids :
              Planning!LongestPath[s] = LongestOf(Planning!LongestPath, s)
<1> DEFINE deps == task.deps
           N == Cardinality(DOMAIN deps)
           r == Removed(deps)
<1>1. IsFiniteSet(DOMAIN deps)
  BY DEF IsGraph
<1>2. /\ N \in Nat /\ DOMAIN r = 0..N /\ r[0] = {}
      /\ \A i \in 0..(N - 1) : r[i + 1] = r[i] \cup NextLevel(deps, r[i])
      /\ \A i \in 0..N : \A s \in r[i] : DependsOn(deps, s) \subseteq r[i]
      /\ \A i \in 0..(N - 1) : \A s \in NextLevel(deps, r[i]) : DependsOn(deps, s) \subseteq r[i]
  <2>1. /\ N \in Nat /\ DOMAIN r = 0..N /\ r[0] = {}
        /\ \A i \in 0..(N - 1) : r[i + 1] = r[i] \cup NextLevel(deps, r[i])
    BY <1>1, RoundFacts
  <2>2. \A i \in 0..N : \A s \in r[i] : DependsOn(deps, s) \subseteq r[i]
    BY <2>1, RoundsClosed
  <2>3. \A i \in 0..(N - 1) : \A s \in NextLevel(deps, r[i]) : DependsOn(deps, s) \subseteq r[i]
    <3>1. \A i \in 0..(N - 1) : i \in DOMAIN r
      BY <2>1
    <3> QED
      BY <3>1, LevelSound
  <2> QED
    BY <2>1, <2>2, <2>3
<1>3. \A s : Planning!DepsOf(s) = DependsOn(deps, s)
  BY DEF Planning!DepsOf, Planning!DependsOn, Planning!Range, DependsOn, Range
<1>4. r[N] = Planning!Ids
  BY DEF Sortable, Planning!Ids
<1> DEFINE T == {i \in 0..N : \E longest : AreLongest(longest, r[i])}
<1> HIDE DEF r, N, deps
<1>5. 0 \in T
  <2>1. AreLongest([s \in {} |-> 0], {})
    BY DEF AreLongest
  <2>2. \E longest : AreLongest(longest, r[0])
    BY <1>2, <2>1, Zenon
  <2>3. 0 \in 0..N
    BY <1>2
  <2> QED
    BY <2>2, <2>3
<1>6. ASSUME NEW i \in 0..(N - 1), i \in T PROVE i + 1 \in T
  <2>1. PICK before : AreLongest(before, r[i])
    BY <1>6
  <2> DEFINE S == r[i + 1]
             longest == [s \in S |-> IF s \in r[i] THEN before[s] ELSE LongestOf(before, s)]
  <2>2. i \in 0..N /\ i + 1 \in 0..N /\ S = r[i] \cup NextLevel(deps, r[i])
    BY <1>2
  <2>3. \A s \in r[i] : before[s] = LongestOf(before, s)
    BY <2>1 DEF AreLongest
  <2>4. \A s \in S : longest[s] = LongestOf(before, s)
    BY <2>2, <2>3
  <2>5. \A s \in r[i] : longest[s] = before[s]
    BY <2>2
  <2>6. \A s \in S : Planning!DepsOf(s) \subseteq r[i]
    BY <1>2, <1>3, <2>2
  <2> HIDE DEF S
  <2>7. longest = [s \in S |-> longest[s]]
    OBVIOUS
  <2> HIDE DEF longest
  <2>8. ASSUME NEW s \in S PROVE longest[s] = LongestOf(longest, s)
    <3>1. \A d \in Planning!DepsOf(s) \cap Planning!Ids : longest[d] = before[d]
      BY <2>5, <2>6
    <3>2. LongestOf(longest, s) = LongestOf(before, s)
      BY <3>1, LongestSame
    <3> QED
      BY <2>4, <3>2
  <2>9. AreLongest(longest, S)
    BY <2>7, <2>8 DEF AreLongest
  <2> QED
    BY <2>2, <2>9 DEF S
<1>7. N \in T
  <2> HIDE DEF T
  <2>1. \A i \in 0..N : i \in T
    BY <1>2, <1>5, <1>6, OneByOne
  <2> QED
    BY <1>2, <2>1
<1>8. \E longest : AreLongest(longest, Planning!Ids)
  BY <1>4, <1>7
<1>9. Planning!LongestPath = CHOOSE longest : AreLongest(longest, Planning!Ids)
  BY Zenon DEF Planning!LongestPath, AreLongest, LongestOf
<1>10. AreLongest(Planning!LongestPath, Planning!Ids)
  BY <1>8, <1>9, Zenon
<1> HIDE DEF T
<1> QED
  BY <1>10 DEF AreLongest

\* Of numbers that are compared one after the other, the first of the largest is there.
LEMMA FirstLargestIs ==
    ASSUME NEW n \in Nat, NEW f, DOMAIN f \subseteq 1..n, DOMAIN f # {}, \A i \in DOMAIN f : f[i] \in Nat
    PROVE  Planning!FirstLargest(f) \in DOMAIN f
<1> DEFINE D == DOMAIN f
           First(i, k) == i \in D /\ i <= k /\ \A j \in D : j <= k => f[j] < f[i] \/ (f[j] = f[i] /\ i <= j)
           T == {k \in 0..n : (\E j \in D : j <= k) => \E i \in D : First(i, k)}
<1>1. 0 \in T
  OBVIOUS
<1>2. ASSUME NEW k \in 0..(n - 1), k \in T PROVE k + 1 \in T
  <2>1. k + 1 \in 0..n /\ \A j \in D : j <= k + 1 <=> j <= k \/ j = k + 1
    OBVIOUS
  <2>2. CASE k + 1 \notin D
    BY <1>2, <2>1, <2>2
  <2>3. CASE k + 1 \in D
    <3>1. CASE \E j \in D : j <= k
      <4>1. PICK i \in D : First(i, k)
        BY <1>2, <3>1
      <4>2. CASE f[k + 1] > f[i]
        <5>1. First(k + 1, k + 1)
          BY <2>1, <2>3, <4>1, <4>2
        <5> QED
          BY <2>1, <2>3, <5>1
      <4>3. CASE ~(f[k + 1] > f[i])
        <5>1. First(i, k + 1)
          BY <2>1, <2>3, <4>1, <4>3
        <5> QED
          BY <2>1, <5>1
      <4> QED
        BY <4>2, <4>3
    <3>2. CASE ~ \E j \in D : j <= k
      <4>1. First(k + 1, k + 1)
        BY <2>1, <2>3, <3>2
      <4> QED
        BY <2>1, <2>3, <4>1
    <3> QED
      BY <3>1, <3>2
  <2> QED
    BY <2>2, <2>3
<1>3. n \in T
  <2> HIDE DEF T
  <2>1. \A i \in 0..n : i \in T
    BY <1>1, <1>2, OneByOne
  <2> QED
    BY <2>1
<1>4. \E i \in D : \A j \in D : f[j] < f[i] \/ (f[j] = f[i] /\ i <= j)
  <2>1. \A j \in D : j <= n
    OBVIOUS
  <2> QED
    BY <1>3, <2>1
<1> QED
  BY <1>4 DEF Planning!FirstLargest

-----------------------------------------------------------------------------
\* The time of a path grows by that of the step that is appended.
LEMMA SamePlanSum == ASSUME NEW f PROVE Planning!SumFunction(f) = SumFunctionOnSet(f, DOMAIN f)
BY DEF Planning!SumFunction, Planning!SumFunctionOnSet, SumFunctionOnSet,
       Planning!FoldFunctionOnSet, FoldFunctionOnSet, Planning!MapThenFoldSet, MapThenFoldSet

\* The steps of a plan have times.
Timed(S) == \A s \in S : task.time[s] \in Nat

LEMMA PathTimes ==
    ASSUME NEW S, Timed(S), NEW q \in Seq(S), NEW s \in S
    PROVE  /\ Planning!Time(q) \in Nat
           /\ Planning!Time(Append(q, s)) = Planning!Time(q) + task.time[s]
           /\ Planning!Time(<<s>>) = task.time[s]
<1> DEFINE TimeOf(p) == [i \in DOMAIN p |-> task.time[p[i]]]
<1>1. ASSUME NEW p \in Seq(S)
      PROVE  /\ Planning!Time(p) = SumFunctionOnSet(TimeOf(p), DOMAIN p) /\ Planning!Time(p) \in Nat
             /\ \A i \in DOMAIN p : TimeOf(p)[i] = task.time[p[i]] /\ task.time[p[i]] \in Nat
             /\ IsFiniteSet(DOMAIN p)
  <2>1. Planning!Time(p) = SumFunctionOnSet(TimeOf(p), DOMAIN p)
    BY SamePlanSum DEF Planning!Time
  <2>2. Len(p) \in Nat /\ DOMAIN p = 1..Len(p) /\ IsFiniteSet(DOMAIN p)
    BY FS_Interval
  <2>3. \A i \in DOMAIN p : TimeOf(p)[i] = task.time[p[i]] /\ task.time[p[i]] \in Nat
    BY DEF Timed
  <2>4. \A i \in DOMAIN p : TimeOf(p)[i] \in Int /\ TimeOf(p)[i] >= 0
    BY <2>3
  <2> HIDE DEF TimeOf
  <2>5. SumFunctionOnSet(TimeOf(p), DOMAIN p) \in Int /\ SumFunctionOnSet(TimeOf(p), DOMAIN p) >= 0
    BY <2>2, <2>4, SumType
  <2> QED
    BY <2>1, <2>2, <2>3, <2>5
<1> HIDE DEF TimeOf
<1>2. ASSUME NEW p \in Seq(S) PROVE Planning!Time(Append(p, s)) = Planning!Time(p) + task.time[s]
  <2> DEFINE a == Append(p, s)
             n == Len(p)
  <2>1. /\ n \in Nat /\ DOMAIN p = 1..n /\ a \in Seq(S) /\ DOMAIN a = 1..(n + 1)
        /\ a[n + 1] = s /\ \A i \in 1..n : a[i] = p[i]
    OBVIOUS
  <2> HIDE DEF a, n
  <2>2. n + 1 \in DOMAIN a /\ DOMAIN a \ {n + 1} = DOMAIN p /\ \A i \in DOMAIN p : i \in DOMAIN a
    BY <2>1
  <2>3. \A i \in DOMAIN a : TimeOf(a)[i] \in Int
    BY <1>1, <2>1
  <2>4. SumFunctionOnSet(TimeOf(a), DOMAIN a)
          = TimeOf(a)[n + 1] + SumFunctionOnSet(TimeOf(a), DOMAIN p)
    <3>1. IsFiniteSet(DOMAIN a)
      BY <1>1, <2>1
    <3> DEFINE f == TimeOf(a)
    <3> HIDE DEF f
    <3>2. \A i \in DOMAIN a : f[i] \in Int
      BY <2>3 DEF f
    <3>3. SumFunctionOnSet(f, DOMAIN a) = f[n + 1] + SumFunctionOnSet(f, DOMAIN a \ {n + 1})
      BY <2>2, <3>1, <3>2, SumRemove
    <3> QED
      BY <2>2, <3>3 DEF f
  <2>5. \A i \in DOMAIN p : TimeOf(a)[i] = TimeOf(p)[i]
    BY <1>1, <2>1, <2>2
  <2>6. SumFunctionOnSet(TimeOf(a), DOMAIN p) = SumFunctionOnSet(TimeOf(p), DOMAIN p)
    BY <1>1, <2>5, SumCongruence
  <2>7. TimeOf(a)[n + 1] = task.time[s] /\ task.time[s] \in Nat
    BY <1>1, <2>1, <2>2 DEF Timed
  <2>8. Planning!Time(a) = task.time[s] + Planning!Time(p) /\ Planning!Time(p) \in Nat
    BY <1>1, <2>1, <2>4, <2>6, <2>7
  <2> QED
    BY <2>7, <2>8 DEF a
<1>3. <<>> \in Seq(S) /\ Append(<<>>, s) = <<s>>
  OBVIOUS
<1>4. Planning!Time(<<>>) = 0
  <2>1. DOMAIN <<>> = {} /\ <<>> \in Seq(S)
    OBVIOUS
  <2>2. Planning!Time(<<>>) = SumFunctionOnSet(TimeOf(<<>>), {})
    BY <1>1, <2>1
  <2> QED
    BY <2>2, FS_EmptySet, SumUnfold
<1>5. Planning!Time(<<s>>) = 0 + task.time[s]
  BY <1>2, <1>3, <1>4
<1> QED
  BY <1>1, <1>2, <1>5 DEF Timed

\* The longest of a level's times
LEMMA LevelTimes ==
    ASSUME NEW k \in Nat, NEW n, \A s \in Planning!Level(n) : task.time[s] \in 0..k
    PROVE  /\ Planning!LevelTime(n) \in Nat
           /\ \A s \in Planning!Level(n) : task.time[s] <= Planning!LevelTime(n)
<1> DEFINE S == {0} \cup {task.time[s] : s \in Planning!Level(n)}
           C == {k - x : x \in S}
<1>0. \A x \in S : x \in 0..k
  OBVIOUS
<1>1. PICK m \in C : \A i \in C : m <= i
  <2>1. C \in SUBSET Nat /\ C # {}
    <3> HIDE DEF S
    <3>1. 0 \in S
      BY DEF S
    <3> QED
      BY <1>0, <3>1
  <2> HIDE DEF C
  <2> QED
    BY <2>1, SmallestNumber
<1>2. PICK x \in S : m = k - x
  BY <1>1
<1>3. \A y \in S : x >= y
  <2> HIDE DEF S
  <2> TAKE y \in S
  <2>1. k - y \in C /\ x \in 0..k /\ y \in 0..k
    BY <1>0
  <2>2. m <= k - y
    BY <1>1, <2>1
  <2> QED
    BY <1>2, <2>1, <2>2
<1> HIDE DEF C
<1>4. Planning!LevelTime(n) \in S /\ \A y \in S : Planning!LevelTime(n) >= y
  <2>1. Planning!LevelTime(n) = CHOOSE z \in S : \A y \in S : z >= y
    BY DEF Planning!LevelTime, Planning!Max
  <2> HIDE DEF S
  <2> QED
    BY <1>3, <2>1
<1> QED
  BY <1>0, <1>4

-----------------------------------------------------------------------------
\* A chain of dependencies that begins with a step that has none and ends with s
ChainTo(path, s) ==
    /\ path \in Seq(Planning!Ids) /\ Len(path) >= 1 /\ path[Len(path)] = s
    /\ Planning!DepsOf(path[1]) = {}
    /\ \A i \in 2..Len(path) : path[i - 1] \in Planning!DepsOf(path[i])

LEMMA ChainLonger ==
    ASSUME NEW d \in Planning!Ids, NEW path, ChainTo(path, d), NEW s \in Planning!Ids,
           d \in Planning!DepsOf(s)
    PROVE  ChainTo(Append(path, s), s)
<1> DEFINE n == Len(path)
           a == Append(path, s)
<1>1. /\ n \in Nat /\ n >= 1 /\ DOMAIN path = 1..n /\ a \in Seq(Planning!Ids) /\ Len(a) = n + 1
      /\ a[n + 1] = s /\ (\A i \in 1..n : a[i] = path[i]) /\ path[n] = d
  BY DEF ChainTo
<1>2. /\ Planning!DepsOf(path[1]) = {}
      /\ \A i \in 2..n : path[i - 1] \in Planning!DepsOf(path[i])
  BY DEF ChainTo
<1> HIDE DEF a, n
<1>3. a[1] = path[1] /\ Len(a) >= 1
  BY <1>1
<1>4. ASSUME NEW i \in 2..(n + 1) PROVE a[i - 1] \in Planning!DepsOf(a[i])
  <2>1. i - 1 \in 1..n
    BY <1>1
  <2>2. CASE i = n + 1
    <3>1. a[i] = s /\ a[i - 1] = d
      BY <1>1, <2>1, <2>2
    <3> QED
      BY <3>1
  <2>3. CASE i # n + 1
    <3>1. i \in 2..n /\ i \in 1..n
      BY <1>1, <2>3
    <3>2. a[i] = path[i] /\ a[i - 1] = path[i - 1]
      BY <1>1, <2>1, <3>1
    <3> QED
      BY <1>2, <3>1, <3>2
  <2> QED
    BY <2>2, <2>3
<1> QED
  BY <1>1, <1>2, <1>3, <1>4 DEF ChainTo, a

\* findLongestPath returns such a chain, to a step whose dependencies have such chains.
LEMMA LongestStep ==
    ASSUME NEW L, NEW s \in Planning!Ids, task.deps[s] \in Seq(Planning!Ids),
           \A d \in Planning!DepsOf(s) : ChainTo(L[d], d)
    PROVE  /\ ChainTo(LongestOf(L, s), s)
           /\ \/ LongestOf(L, s) = <<s>>
              \/ \E d \in Planning!DepsOf(s) : LongestOf(L, s) = Append(L[d], s)
<1> DEFINE q == task.deps[s]
           K == {k \in DOMAIN q : q[k] \in Planning!Ids}
           paths == [i \in K |-> L[q[i]]]
           lengths == [i \in DOMAIN paths |-> Len(paths[i])]
           G(p) == IF DOMAIN p = {} THEN <<s>>
                   ELSE Append(p[Planning!FirstLargest([i \in DOMAIN p |-> Len(p[i])])], s)
<1>1. /\ Len(q) \in Nat /\ DOMAIN q = 1..Len(q) /\ K = DOMAIN q /\ DOMAIN paths = K
      /\ \A i \in K : q[i] \in Planning!DepsOf(s) /\ q[i] \in Planning!Ids
  BY DEF Planning!DepsOf, Planning!DependsOn, Planning!Range
<1>2. LongestOf(L, s) = G(paths)
  BY DEF LongestOf
<1>3. CASE K = {}
  <2>1. LongestOf(L, s) = <<s>>
    BY <1>1, <1>2, <1>3
  <2>2. Planning!DepsOf(s) = {}
    BY <1>1, <1>3 DEF Planning!DepsOf, Planning!DependsOn, Planning!Range
  <2>3. ChainTo(<<s>>, s)
    BY <2>2 DEF ChainTo
  <2> QED
    BY <2>1, <2>3
<1>4. CASE K # {}
  <2>1. \A i \in K : paths[i] = L[q[i]] /\ Len(L[q[i]]) \in Nat
    BY <1>1 DEF ChainTo
  <2>2. DOMAIN lengths = K /\ \A i \in K : lengths[i] \in Nat
    BY <1>1, <2>1
  <2> DEFINE first == Planning!FirstLargest(lengths)
  <2>3. first \in K
    <3> HIDE DEF lengths, K
    <3>1. K \subseteq 1..Len(q)
      BY <1>1
    <3> QED
      BY <1>1, <1>4, <2>2, <3>1, FirstLargestIs
  <2>4. G(paths) = Append(paths[first], s)
    BY <1>1, <1>4
  <2> HIDE DEF first, paths, lengths, G, K, q
  <2>5. LongestOf(L, s) = Append(L[q[first]], s)
    BY <1>2, <2>1, <2>3, <2>4
  <2>6. q[first] \in Planning!DepsOf(s) /\ q[first] \in Planning!Ids
    BY <1>1, <2>3
  <2>7. ChainTo(Append(L[q[first]], s), s)
    BY <2>6, ChainLonger
  <2> QED
    BY <2>5, <2>6, <2>7
<1> QED
  BY <1>3, <1>4

-----------------------------------------------------------------------------
\* The levels' times up to the k-th
TimeUpTo(k) == SumFunctionOnSet([n \in Planning!Ids |-> Planning!LevelTime(n)], 1..k)

LEMMA LevelsAdd ==
    ASSUME NEW n \in Nat, Planning!Ids = 1..n, \A i \in 1..n : Planning!LevelTime(i) \in Nat
    PROVE  /\ \A k \in 0..n : TimeUpTo(k) \in Nat
           /\ \A k \in 0..(n - 1) : TimeUpTo(k + 1) = TimeUpTo(k) + Planning!LevelTime(k + 1)
           /\ Planning!TotalTime = TimeUpTo(n)
<1> DEFINE f == [i \in Planning!Ids |-> Planning!LevelTime(i)]
<1>1. \A i \in 1..n : f[i] = Planning!LevelTime(i) /\ f[i] \in Int /\ f[i] >= 0
  OBVIOUS
<1>2. DOMAIN f = 1..n
  OBVIOUS
<1>3. Planning!TotalTime = SumFunctionOnSet(f, 1..n)
  BY <1>2, SamePlanSum DEF Planning!TotalTime
<1> HIDE DEF f
<1>4. ASSUME NEW k \in 0..n PROVE SumFunctionOnSet(f, 1..k) \in Nat
  <2>1. IsFiniteSet(1..k) /\ \A i \in 1..k : i \in 1..n
    BY FS_Interval
  <2>2. \A i \in 1..k : f[i] \in Int /\ f[i] >= 0
    BY <1>1, <2>1
  <2>3. SumFunctionOnSet(f, 1..k) \in Int /\ SumFunctionOnSet(f, 1..k) >= 0
    BY <2>1, <2>2, SumType
  <2> QED
    BY <2>3
<1>5. ASSUME NEW k \in 0..(n - 1)
      PROVE  SumFunctionOnSet(f, 1..(k + 1)) = SumFunctionOnSet(f, 1..k) + Planning!LevelTime(k + 1)
  <2> DEFINE S == 1..(k + 1)
  <2>1. IsFiniteSet(S) /\ k + 1 \in S /\ S \ {k + 1} = 1..k /\ \A i \in S : i \in 1..n
    <3>1. IsFiniteSet(S)
      BY FS_Interval
    <3>2. k + 1 \in S /\ S \ {k + 1} = 1..k
      OBVIOUS
    <3>3. \A i \in S : i \in 1..n
      OBVIOUS
    <3> QED
      BY <3>1, <3>2, <3>3
  <2>2. \A i \in S : f[i] \in Int
    BY <1>1, <2>1
  <2> HIDE DEF S
  <2>3. SumFunctionOnSet(f, S) = f[k + 1] + SumFunctionOnSet(f, S \ {k + 1})
    BY <2>1, <2>2, SumRemove
  <2>4. f[k + 1] = Planning!LevelTime(k + 1) /\ f[k + 1] \in Int
    BY <1>1, <2>1
  <2>5. SumFunctionOnSet(f, 1..k) \in Nat
    <3>1. k \in 0..n
      OBVIOUS
    <3> QED
      BY <1>4, <3>1
  <2>6. SumFunctionOnSet(f, S) = SumFunctionOnSet(f, 1..k) + Planning!LevelTime(k + 1)
    <3>1. SumFunctionOnSet(f, S \ {k + 1}) = SumFunctionOnSet(f, 1..k)
      BY <2>1, Zenon
    <3>2. PICK a \in Nat : a = SumFunctionOnSet(f, 1..k)
      BY <2>5
    <3> QED
      BY <2>3, <2>4, <3>1, <3>2
  <2> QED
    BY <2>6 DEF S
<1> QED
  BY <1>3, <1>4, <1>5 DEF f, TimeUpTo

LEMMA SameRounds == ASSUME NEW deps PROVE Planning!Removed(deps) = Removed(deps)
BY DEF Planning!Removed, Planning!NextLevel, Planning!InDegree, Planning!DependsOn, Planning!Range,
       Planning!Cardinality, Planning!IsFiniteSet,
       Removed, NextLevel, InDegree, DependsOn, Range, Cardinality, IsFiniteSet

\* Every step of a level, together with the longest chain before it, takes no longer than
\* the levels up to its own.
LEMMA LongestFits ==
    ASSUME IsGraph(task.deps), Sortable(task.deps), NEW n \in Nat, Planning!Ids = 1..n, Timed(1..n),
           NEW h \in Nat, \A s \in 1..n : task.time[s] \in 0..h
    PROVE  \A s \in Planning!Ids :
              /\ ChainTo(Planning!LongestPath[s], s)
              /\ Planning!Time(Planning!LongestPath[s]) <= Planning!TotalTime
<1> DEFINE deps == task.deps
           N == Cardinality(DOMAIN deps)
           r == Removed(deps)
           L == Planning!LongestPath
<1>1. IsFiniteSet(DOMAIN deps) /\ DOMAIN deps = 1..n /\ N = n
  <2>1. IsFiniteSet(DOMAIN deps) /\ DOMAIN deps = 1..n
    BY DEF IsGraph, Planning!Ids
  <2> QED
    BY <2>1, FS_Interval
<1>2. /\ DOMAIN r = 0..n /\ r[0] = {} /\ r[n] = 1..n
      /\ \A i \in 0..(n - 1) : r[i + 1] = r[i] \cup NextLevel(deps, r[i])
      /\ \A i \in DOMAIN r : r[i] \subseteq 1..n
  BY <1>1, RoundFacts, RoundsAreSteps DEF Sortable
<1>3. \A s : Planning!DepsOf(s) = DependsOn(deps, s)
  BY DEF Planning!DepsOf, Planning!DependsOn, Planning!Range, DependsOn, Range
<1>4. \A s \in 1..n : deps[s] \in Seq(DependsOn(deps, s))
  BY <1>1 DEF IsGraph
<1>5. \A i \in DOMAIN r : \A s \in NextLevel(deps, r[i]) : DependsOn(deps, s) \subseteq r[i]
  BY LevelSound
<1>6. \A s \in Planning!Ids : L[s] = LongestOf(L, s)
  BY LongestExist
<1>7. \A i : Planning!Level(i) = r[i] \ r[i - 1]
  BY SameRounds DEF Planning!Level
<1>8. ASSUME NEW i \in 1..n
      PROVE  /\ Planning!LevelTime(i) \in Nat
             /\ \A s \in Planning!Level(i) : task.time[s] <= Planning!LevelTime(i)
  <2>1. \A s \in Planning!Level(i) : task.time[s] \in 0..h
    <3>1. i \in DOMAIN r
      BY <1>2
    <3> QED
      BY <1>2, <1>7, <3>1
  <2> QED
    BY <2>1, LevelTimes
<1>9. /\ \A k \in 0..n : TimeUpTo(k) \in Nat
      /\ \A k \in 0..(n - 1) : TimeUpTo(k + 1) = TimeUpTo(k) + Planning!LevelTime(k + 1)
      /\ Planning!TotalTime = TimeUpTo(n)
  BY <1>8, LevelsAdd
<1> HIDE DEF L, r, N, deps
<1> DEFINE FitsIn(s, k) == ChainTo(L[s], s) /\ Planning!Time(L[s]) <= TimeUpTo(k)
           T == {k \in 0..n : \A s \in r[k] : FitsIn(s, k)}
<1>10. 0 \in T
  BY <1>2
<1>11. ASSUME NEW k \in 0..(n - 1), k \in T PROVE k + 1 \in T
  <2>1. /\ k \in 0..n /\ k + 1 \in 0..n /\ k + 1 \in 1..n /\ k \in DOMAIN r /\ k + 1 \in DOMAIN r
        /\ (k + 1) - 1 = k
    BY <1>2
  <2>2. /\ TimeUpTo(k) \in Nat /\ Planning!LevelTime(k + 1) \in Nat
        /\ TimeUpTo(k + 1) = TimeUpTo(k) + Planning!LevelTime(k + 1)
    BY <1>8, <1>9, <2>1
  <2>3. ASSUME NEW s \in r[k + 1] PROVE FitsIn(s, k + 1)
    <3>1. CASE s \in r[k]
      <4>1. s \in 1..n /\ ChainTo(L[s], s) /\ Planning!Time(L[s]) <= TimeUpTo(k)
        BY <1>2, <1>11, <2>1, <3>1
      <4>2. Planning!Time(L[s]) \in Nat
        <5>1. L[s] \in Seq(1..n)
          BY <4>1 DEF ChainTo
        <5> QED
          BY <4>1, <5>1, PathTimes
      <4> QED
        BY <2>2, <4>1, <4>2
    <3>2. CASE s \notin r[k]
      <4>1. s \in NextLevel(deps, r[k]) /\ s \in 1..n /\ s \in Planning!Level(k + 1)
        BY <1>2, <1>7, <2>1, <3>2
      <4>2. Planning!DepsOf(s) \subseteq r[k]
        BY <1>3, <1>5, <2>1, <4>1
      <4>3. \A d \in Planning!DepsOf(s) : d \in 1..n /\ FitsIn(d, k)
        BY <1>2, <1>11, <2>1, <4>2
      <4>4. task.deps[s] \in Seq(Planning!Ids)
        <5>1. deps[s] \in Seq(DependsOn(deps, s)) /\ DependsOn(deps, s) \subseteq 1..n
          BY <1>2, <1>3, <1>4, <2>1, <4>1, <4>2
        <5> QED
          BY <5>1 DEF deps
      <4>5. /\ ChainTo(L[s], s)
            /\ L[s] = <<s>> \/ \E d \in Planning!DepsOf(s) : L[s] = Append(L[d], s)
        <5>1. \A d \in Planning!DepsOf(s) : ChainTo(L[d], d)
          BY <4>3
        <5>2. s \in Planning!Ids /\ L[s] = LongestOf(L, s)
          BY <1>6, <4>1
        <5> HIDE DEF FitsIn
        <5> QED
          BY <4>4, <5>1, <5>2, LongestStep
      <4>6. task.time[s] \in Nat /\ task.time[s] <= Planning!LevelTime(k + 1)
        BY <1>8, <2>1, <4>1 DEF Timed
      <4>7. CASE L[s] = <<s>>
        <5>1. <<>> \in Seq(1..n)
          OBVIOUS
        <5>2. Planning!Time(<<s>>) = task.time[s]
          BY <4>1, <5>1, PathTimes
        <5> QED
          BY <2>2, <4>5, <4>6, <4>7, <5>2
      <4>8. ASSUME NEW d \in Planning!DepsOf(s), L[s] = Append(L[d], s) PROVE FitsIn(s, k + 1)
        <5>1. L[d] \in Seq(1..n) /\ Planning!Time(L[d]) <= TimeUpTo(k)
          BY <4>3 DEF ChainTo
        <5>2. Planning!Time(L[d]) \in Nat /\ Planning!Time(Append(L[d], s)) = Planning!Time(L[d]) + task.time[s]
          BY <4>1, <5>1, PathTimes
        <5> QED
          BY <2>2, <4>5, <4>6, <4>8, <5>1, <5>2
      <4> QED
        BY <4>5, <4>7, <4>8
    <3> QED
      BY <3>1, <3>2
  <2> HIDE DEF FitsIn
  <2> QED
    BY <2>1, <2>3
<1>12. n \in T
  <2> HIDE DEF T
  <2>1. \A k \in 0..n : k \in T
    BY <1>10, <1>11, OneByOne
  <2> QED
    BY <2>1
<1> QED
  BY <1>2, <1>9, <1>12 DEF L

\* The critical path of a plan is a chain of dependencies, and the estimate covers every one.
LEMMA TimesCovered ==
    ASSUME IsGraph(task.deps), NEW n \in Nat, Planning!Ids = 1..n, Timed(1..n),
           NEW h \in Nat, \A s \in 1..n : task.time[s] \in 0..h
    PROVE  Planning!TimeCoversCriticalPath
<1>1. Planning!Sortable(task.deps) <=> Sortable(task.deps)
  <2>1. Planning!Cardinality(DOMAIN task.deps) = Cardinality(DOMAIN task.deps)
    BY DEF Planning!Cardinality, Planning!IsFiniteSet, Cardinality, IsFiniteSet
  <2> QED
    BY <2>1, SameRounds DEF Planning!Sortable, Sortable
<1>2. SUFFICES ASSUME Sortable(task.deps)
               PROVE  /\ LET path == Planning!CriticalPath
                         IN  path # <<>> =>
                               /\ Planning!DepsOf(path[1]) = {}
                               /\ \A i \in 2..Len(path) : path[i - 1] \in Planning!DepsOf(path[i])
                               /\ \A t \in Planning!Ids : path[Len(path)] \notin Planning!DepsOf(t)
                      /\ \A s \in Planning!Ids :
                            Planning!Time(Planning!LongestPath[s]) <= Planning!TotalTime
  BY <1>1 DEF Planning!TimeCoversCriticalPath
<1>3. \A s \in Planning!Ids : /\ ChainTo(Planning!LongestPath[s], s)
                              /\ Planning!Time(Planning!LongestPath[s]) <= Planning!TotalTime
  BY <1>2, LongestFits
<1>4. ASSUME Planning!CriticalPath # <<>>
      PROVE  \E s \in Planning!EndSteps : Planning!CriticalPath = Planning!LongestPath[s]
  <2> DEFINE times == [s \in Planning!EndSteps |-> Planning!Time(Planning!LongestPath[s])]
  <2>1. Planning!EndSteps # {} /\ Planning!CriticalPath = Planning!LongestPath[Planning!FirstLargest(times)]
    BY <1>4 DEF Planning!CriticalPath
  <2>2. Planning!EndSteps \subseteq 1..n
    BY DEF Planning!EndSteps
  <2>3. DOMAIN times = Planning!EndSteps /\ \A s \in Planning!EndSteps : times[s] \in Nat
    <3> SUFFICES ASSUME NEW s \in Planning!EndSteps PROVE Planning!Time(Planning!LongestPath[s]) \in Nat
      OBVIOUS
    <3>1. s \in 1..n /\ Planning!LongestPath[s] \in Seq(1..n)
      BY <1>3, <2>2 DEF ChainTo
    <3> QED
      BY <3>1, PathTimes
  <2> HIDE DEF times
  <2>4. Planning!FirstLargest(times) \in Planning!EndSteps
    BY <2>1, <2>2, <2>3, FirstLargestIs
  <2> QED
    BY <2>1, <2>4
<1>5. ASSUME Planning!CriticalPath # <<>>
      PROVE  LET path == Planning!CriticalPath
             IN  /\ Planning!DepsOf(path[1]) = {}
                 /\ \A i \in 2..Len(path) : path[i - 1] \in Planning!DepsOf(path[i])
                 /\ \A t \in Planning!Ids : path[Len(path)] \notin Planning!DepsOf(t)
  <2>1. PICK s \in Planning!EndSteps : Planning!CriticalPath = Planning!LongestPath[s]
    BY <1>4, <1>5
  <2>2. s \in Planning!Ids /\ \A t \in Planning!Ids : s \notin Planning!DepsOf(t)
    BY DEF Planning!EndSteps
  <2>3. ChainTo(Planning!CriticalPath, s)
    BY <1>3, <2>1, <2>2
  <2> QED
    BY <2>2, <2>3 DEF ChainTo
<1> QED
  BY <1>3, <1>5

-----------------------------------------------------------------------------
\* task-decomposer.ts: what its estimate and the least time are, for all words
LEMMA LargestIs ==
    ASSUME NEW S \in SUBSET Int, NEW m \in S, \A y \in S : m >= y
    PROVE  Planning!Max(S) = m
<1>1. Planning!Max(S) \in S /\ \A y \in S : Planning!Max(S) >= y
  BY DEF Planning!Max
<1>2. PICK x \in S : x = Planning!Max(S)
  BY <1>1
<1>3. x >= m /\ m >= x /\ x \in Int /\ m \in Int
  BY <1>1, <1>2
<1> QED
  BY <1>2, <1>3

\* One task after the data, or at once
AfterData(words, time) == IF "data" \in words THEN 2 + time ELSE time

\* When all but the generation is over
GeneratedFrom(words) ==
    IF "compute" \in words THEN AfterData(words, 8)
    ELSE IF "analyze" \in words THEN AfterData(words, 5)
    ELSE AfterData(words, 0)

\* A function that LeastTime defines
IsFinish(words, finish) ==
    finish = [k \in Planning!Keywords |->
                 Planning!TaskTime[k] + Planning!Max({0} \cup {finish[d] : d \in Planning!Needs(words, k)})]

LEMMA TimesAre ==
    /\ Planning!TaskTime["data"] = 2 /\ Planning!TaskTime["analyze"] = 5
    /\ Planning!TaskTime["compute"] = 8 /\ Planning!TaskTime["generate"] = 3
    /\ Planning!Keywords = {"data", "analyze", "compute", "generate"}
BY DEF Planning!TaskTime, Planning!Keywords

LEMMA NeedsAre ==
    ASSUME NEW words
    PROVE  /\ Planning!Needs(words, "data") = {}
           /\ Planning!Needs(words, "analyze") = words \cap {"data"}
           /\ Planning!Needs(words, "compute") = words \cap {"data"}
           /\ Planning!Needs(words, "generate") = words \ {"generate"}
BY DEF Planning!Needs

\* What ends when, if f says it for what comes before
LEMMA FinishSteps ==
    ASSUME NEW words \in SUBSET Planning!Keywords, NEW f
    PROVE  /\ Planning!Max({0} \cup {f[d] : d \in Planning!Needs(words, "data")}) = 0
           /\ f["data"] = 2 =>
                 \A k \in {"analyze", "compute"} :
                    Planning!TaskTime[k] + Planning!Max({0} \cup {f[d] : d \in Planning!Needs(words, k)})
                       = AfterData(words, Planning!TaskTime[k])
           /\ f["data"] = 2 /\ f["analyze"] = AfterData(words, 5) /\ f["compute"] = AfterData(words, 8) =>
                 Planning!Max({0} \cup {f[d] : d \in Planning!Needs(words, "generate")}) = GeneratedFrom(words)
<1>1. Planning!Max({0} \cup {f[d] : d \in Planning!Needs(words, "data")}) = 0
  <2>1. {0} \cup {f[d] : d \in Planning!Needs(words, "data")} = {0}
    BY NeedsAre
  <2> QED
    BY <2>1, LargestIs
<1>2. ASSUME f["data"] = 2, NEW k \in {"analyze", "compute"}
      PROVE  Planning!TaskTime[k] + Planning!Max({0} \cup {f[d] : d \in Planning!Needs(words, k)})
                = AfterData(words, Planning!TaskTime[k])
  <2> DEFINE S == {0} \cup {f[d] : d \in words \cap {"data"}}
             m == IF "data" \in words THEN 2 ELSE 0
  <2>1. Planning!Needs(words, k) = words \cap {"data"} /\ Planning!TaskTime[k] \in Nat
    BY NeedsAre, TimesAre
  <2>2. S \in SUBSET Int /\ m \in S /\ \A y \in S : m >= y
    BY <1>2
  <2>3. Planning!Max(S) = m
    <3> HIDE DEF S, m
    <3> QED
      BY <2>2, LargestIs
  <2> QED
    BY <2>1, <2>3 DEF AfterData
<1>3. ASSUME f["data"] = 2, f["analyze"] = AfterData(words, 5), f["compute"] = AfterData(words, 8)
      PROVE  Planning!Max({0} \cup {f[d] : d \in Planning!Needs(words, "generate")}) = GeneratedFrom(words)
  <2> DEFINE S == {0} \cup {f[d] : d \in words \ {"generate"}}
             m == GeneratedFrom(words)
  <2>1. Planning!Needs(words, "generate") = words \ {"generate"}
    BY NeedsAre
  <2>2. \A d \in words \ {"generate"} : d \in {"data", "analyze", "compute"}
    BY TimesAre
  <2>3. S \in SUBSET Int /\ \A y \in S : m >= y
    BY <1>3, <2>2 DEF GeneratedFrom, AfterData
  <2>4. m \in S
    BY <1>3, <2>2 DEF GeneratedFrom, AfterData
  <2>5. Planning!Max(S) = m
    <3> HIDE DEF S, m
    <3> QED
      BY <2>3, <2>4, LargestIs
  <2> QED
    BY <2>1, <2>5
<1> QED
  BY <1>1, <1>2, <1>3

LEMMA FinishExists ==
    ASSUME NEW words \in SUBSET Planning!Keywords
    PROVE  \E finish : IsFinish(words, finish)
<1> DEFINE at(k) == IF k = "data" THEN 2
                    ELSE IF k = "analyze" THEN AfterData(words, 5)
                    ELSE IF k = "compute" THEN AfterData(words, 8)
                    ELSE 3 + GeneratedFrom(words)
           W == [k \in Planning!Keywords |-> at(k)]
<1>1. /\ W["data"] = 2 /\ W["analyze"] = AfterData(words, 5) /\ W["compute"] = AfterData(words, 8)
      /\ W["generate"] = 3 + GeneratedFrom(words)
  BY TimesAre
<1> HIDE DEF at
<1>2. W = [k \in Planning!Keywords |-> W[k]]
  OBVIOUS
<1> HIDE DEF W
<1>3. /\ Planning!Max({0} \cup {W[d] : d \in Planning!Needs(words, "data")}) = 0
      /\ \A k \in {"analyze", "compute"} :
            Planning!TaskTime[k] + Planning!Max({0} \cup {W[d] : d \in Planning!Needs(words, k)})
               = AfterData(words, Planning!TaskTime[k])
      /\ Planning!Max({0} \cup {W[d] : d \in Planning!Needs(words, "generate")}) = GeneratedFrom(words)
  BY <1>1, FinishSteps
<1>4. ASSUME NEW k \in Planning!Keywords
      PROVE  W[k] = Planning!TaskTime[k] + Planning!Max({0} \cup {W[d] : d \in Planning!Needs(words, k)})
  <2>1. k \in {"data", "analyze", "compute", "generate"}
    BY TimesAre
  <2>2. CASE k = "data"
    BY <1>1, <1>3, <2>2, TimesAre
  <2>3. CASE k \in {"analyze", "compute"}
    BY <1>1, <1>3, <2>3, TimesAre
  <2>4. CASE k = "generate"
    BY <1>1, <1>3, <2>4, TimesAre
  <2> QED
    BY <2>1, <2>2, <2>3, <2>4
<1> QED
  BY <1>2, <1>4 DEF IsFinish

LEMMA LeastTimeIs ==
    ASSUME NEW words \in SUBSET Planning!Keywords, words # {}
    PROVE  Planning!LeastTime(words)
              = IF "generate" \in words THEN 3 + GeneratedFrom(words) ELSE GeneratedFrom(words)
<1> DEFINE F == CHOOSE finish : IsFinish(words, finish)
           S == {F[k] : k \in words}
           m == IF "generate" \in words THEN 3 + GeneratedFrom(words) ELSE GeneratedFrom(words)
<1>1. IsFinish(words, F)
  BY FinishExists
<1>2. Planning!LeastTime(words) = Planning!Max(S)
  BY DEF Planning!LeastTime, IsFinish
<1> HIDE DEF F
<1>3. \A k \in Planning!Keywords :
         F[k] = Planning!TaskTime[k] + Planning!Max({0} \cup {F[d] : d \in Planning!Needs(words, k)})
  BY <1>1 DEF IsFinish
<1>4. F["data"] = 2
  BY <1>3, FinishSteps, TimesAre
<1>5. F["analyze"] = AfterData(words, 5) /\ F["compute"] = AfterData(words, 8)
  BY <1>3, <1>4, FinishSteps, TimesAre
<1>6. F["generate"] = 3 + GeneratedFrom(words)
  BY <1>3, <1>4, <1>5, FinishSteps, TimesAre
<1>7. \A k \in words : k \in {"data", "analyze", "compute", "generate"}
  BY TimesAre
<1>8. S \in SUBSET Int /\ m \in S /\ \A y \in S : m >= y
  BY <1>4, <1>5, <1>6, <1>7 DEF GeneratedFrom, AfterData
<1>9. Planning!Max(S) = m
  <2> HIDE DEF S, m
  <2> QED
    BY <1>8, LargestIs
<1> QED
  BY <1>2, <1>9

LEMMA DecomposedTimeIs ==
    ASSUME NEW words \in SUBSET Planning!Keywords, words # {}
    PROVE  Planning!DecomposedTime(words)
              = CASE "data" \in words /\ "compute" \in words -> 10
                  [] "data" \in words /\ "compute" \notin words /\ "analyze" \in words -> 7
                  [] "data" \in words /\ "compute" \notin words /\ "analyze" \notin words ->
                        IF "generate" \in words THEN 5 ELSE 2
                  [] OTHER -> IF "generate" \in words THEN 3 + GeneratedFrom(words)
                                                      ELSE GeneratedFrom(words)
<1> DEFINE Level(w) == Planning!StepLevel(words, w)
           On(n) == {Planning!TaskTime[k] : k \in {w \in words : Planning!StepLevel(words, w) = n}}
           Others == IF "compute" \in words THEN 8 ELSE IF "analyze" \in words THEN 5
                     ELSE IF "generate" \in words THEN 3 ELSE 0
           m0 == IF "data" \in words THEN 2 ELSE Others
           m1 == IF "data" \in words THEN Others
                 ELSE IF "generate" \in words /\ words # {"generate"} THEN 3 ELSE 0
<1>1. \A k \in words : k \in {"data", "analyze", "compute", "generate"}
  BY TimesAre
<1>2. /\ Level("data") = 0
      /\ Level("analyze") = IF "data" \in words THEN 1 ELSE 0
      /\ Level("compute") = IF "data" \in words THEN 1 ELSE 0
      /\ Level("generate") = IF words \ {"generate"} # {} THEN 1 ELSE 0
  BY NeedsAre DEF Planning!StepLevel
<1>3. Planning!DecomposedTime(words) = Planning!Max({0} \cup On(0)) + Planning!Max({0} \cup On(1))
  BY DEF Planning!DecomposedTime
<1>4. Planning!Max({0} \cup On(0)) = m0
  <2>1. ({0} \cup On(0)) \in SUBSET Int /\ \A y \in {0} \cup On(0) : m0 >= y
    BY <1>1, <1>2, TimesAre
  <2>2. m0 \in {0} \cup On(0)
    BY <1>1, <1>2, TimesAre
  <2> HIDE DEF On, m0
  <2> QED
    BY <2>1, <2>2, LargestIs
<1>5. Planning!Max({0} \cup On(1)) = m1
  <2>1. ({0} \cup On(1)) \in SUBSET Int /\ \A y \in {0} \cup On(1) : m1 >= y
    BY <1>1, <1>2, TimesAre
  <2>2. m1 \in {0} \cup On(1)
    BY <1>1, <1>2, TimesAre
  <2> HIDE DEF On, m1
  <2> QED
    BY <2>1, <2>2, LargestIs
<1> HIDE DEF On
<1> QED
  BY <1>1, <1>3, <1>4, <1>5 DEF GeneratedFrom, AfterData

LEMMA DecomposedKnown == Planning!DecomposedTimeKnown
<1> SUFFICES ASSUME NEW words \in (SUBSET Planning!Keywords) \ {{}}
             PROVE  LET three == {"data", "generate"} \subseteq words /\ words \cap {"analyze", "compute"} # {}
                    IN  /\ ~three => Planning!DecomposedTime(words) = Planning!LeastTime(words)
                        /\ three => Planning!DecomposedTime(words) < Planning!LeastTime(words)
  BY DEF Planning!DecomposedTimeKnown
<1> QED
  BY LeastTimeIs, DecomposedTimeIs DEF GeneratedFrom, AfterData

\* A plan of the behaviour, in the shapes that the lemmas above are about
LEMMA PlanShaped ==
    ASSUME PlanningInv
    PROVE  \E n \in Nat :
              /\ Planning!Ids = 1..n /\ Len(task.deps) = n
              /\ IsGraph(task.deps) /\ ChainShaped
              /\ Timed(1..n) /\ \A s \in 1..n : task.time[s] \in 0..2
<1>1. PICK n \in 1..3 : GraphShape(task.deps, n) /\ task.time \in [1..3 -> {1, 2}]
  BY TasksShaped DEF PlanningInv, Planning!TypeOK
<1>2. n \in Nat /\ DOMAIN task.deps = 1..n /\ Planning!Ids = 1..n /\ Len(task.deps) = n
  BY <1>1 DEF GraphShape, Planning!Ids
<1>3. IsFiniteSet(1..n) /\ 1..n \subseteq Nat
  BY <1>2, FS_Interval
<1>4. ASSUME NEW s \in 1..n
      PROVE  /\ \E k \in Nat : DOMAIN task.deps[s] = 1..k /\ task.deps[s] \in [1..k -> Nat]
             /\ task.deps[s] \in Seq(DependsOn(task.deps, s))
  <2> DEFINE q == task.deps[s]
  <2>1. q \in Seq(1..4)
    BY <1>1 DEF GraphShape
  <2>2. Len(q) \in Nat /\ DOMAIN q = 1..Len(q) /\ q \in [1..Len(q) -> 1..4]
    BY <2>1
  <2>3. q \in [1..Len(q) -> Nat] /\ q \in [1..Len(q) -> Range(q)]
    <3> HIDE DEF q
    <3> QED
      BY <2>2 DEF Range
  <2>4. q \in Seq(Range(q))
    <3> HIDE DEF q
    <3> QED
      BY <2>2, <2>3
  <2> QED
    BY <2>2, <2>3, <2>4 DEF DependsOn
<1>5. IsGraph(task.deps) /\ ChainShaped
  BY <1>2, <1>3, <1>4 DEF IsGraph, ChainShaped
<1>6. \A s \in 1..n : task.time[s] \in 0..2 /\ task.time[s] \in Nat
  <2> TAKE s \in 1..n
  <2>1. s \in 1..3
    BY <1>1
  <2>2. task.time[s] \in {1, 2}
    BY <1>1, <2>1
  <2> QED
    BY <2>2
<1> QED
  BY <1>2, <1>5, <1>6 DEF Timed

-----------------------------------------------------------------------------
\* What each of the parts keeps, whichever of them a behaviour is about: those that are not
\* its part stay where they begin.
PartsInv ==
    /\ AgentsInv /\ ClusterInv /\ RouteInv /\ DealInv /\ SessionInv /\ CacheInv
    /\ PageInv /\ WalletPageInv /\ PlanningInv
    /\ part = "facilitator" => FacilitatorInv

\* Every part takes steps of its own only.
LEMMA PartSteps ==
    ASSUME [ReasoningNext]_reasoningVars
    PROVE  /\ [Agents!Next]_chainVars
           /\ [Cluster!Next]_agentVars
           /\ [Middlewares!Next]_routesVars
           /\ [Deals!Next]_dealVars
           /\ [Session!Next]_sessionVars
           /\ [Caches!Next]_cacheVars
           /\ [Pages!Next]_(Pages!pageVars)
           /\ [WalletView!WalletPagesNext]_(WalletView!walletPageVars)
           /\ [Planning!NextPlan]_planVars
           /\ [Next]_vars
           /\ UNCHANGED part
           /\ part = "facilitator" =>
                 [FacilitatorView!FacilitatorPagesNext]_(FacilitatorView!facilitatorPageVars)
<1>1. [Agents!Next]_chainVars
  <2>1. CASE part = "agents"
    BY <2>1 DEF ReasoningNext, reasoningVars
  <2>2. CASE part # "agents"
    BY <2>2 DEF ReasoningNext, reasoningVars, Unless
  <2> QED
    BY <2>1, <2>2
<1>2. [Cluster!Next]_agentVars
  <2>1. CASE part = "cluster"
    BY <2>1 DEF ReasoningNext, reasoningVars
  <2>2. CASE part # "cluster"
    BY <2>2 DEF ReasoningNext, reasoningVars, Unless
  <2> QED
    BY <2>1, <2>2
<1>3. [Middlewares!Next]_routesVars
  <2>1. CASE part = "routes"
    BY <2>1 DEF ReasoningNext, reasoningVars
  <2>2. CASE part # "routes"
    BY <2>2 DEF ReasoningNext, reasoningVars, Unless
  <2> QED
    BY <2>1, <2>2
<1>4. [Deals!Next]_dealVars
  <2>1. CASE part = "deals"
    BY <2>1 DEF ReasoningNext, reasoningVars
  <2>2. CASE part # "deals"
    BY <2>2 DEF ReasoningNext, reasoningVars, Unless
  <2> QED
    BY <2>1, <2>2
<1>5. [Session!Next]_sessionVars
  <2>1. CASE part = "session"
    BY <2>1 DEF ReasoningNext, reasoningVars
  <2>2. CASE part # "session"
    BY <2>2 DEF ReasoningNext, reasoningVars, Unless
  <2> QED
    BY <2>1, <2>2
<1>6. [Caches!Next]_cacheVars
  <2>1. CASE part = "caches"
    BY <2>1 DEF ReasoningNext, reasoningVars
  <2>2. CASE part # "caches"
    BY <2>2 DEF ReasoningNext, reasoningVars, Unless
  <2> QED
    BY <2>1, <2>2
<1>7. [Pages!Next]_(Pages!pageVars)
  <2>1. CASE part = "pages"
    BY <2>1 DEF ReasoningNext, reasoningVars, pageVars, Pages!pageVars
  <2>2. CASE part # "pages"
    BY <2>2 DEF ReasoningNext, reasoningVars, Unless, pageVars, Pages!pageVars
  <2> QED
    BY <2>1, <2>2
<1>8. [WalletView!WalletPagesNext]_(WalletView!walletPageVars)
  <2>1. CASE part = "wallet"
    BY <2>1 DEF ReasoningNext, reasoningVars, walletPageVars, WalletView!walletPageVars,
           WalletView!engineVars, WalletView!viewVars
  <2>2. CASE part # "wallet"
    BY <2>2 DEF ReasoningNext, reasoningVars, Unless, walletPageVars, WalletView!walletPageVars,
           WalletView!engineVars, WalletView!viewVars
  <2> QED
    BY <2>1, <2>2
<1>9. [Planning!NextPlan]_planVars
  <2>1. CASE part = "plan"
    BY <2>1 DEF ReasoningNext, reasoningVars
  <2>2. CASE part # "plan"
    BY <2>2 DEF ReasoningNext, reasoningVars, Unless
  <2> QED
    BY <2>1, <2>2
<1>10. [Next]_vars
  <2>1. CASE part = "engine"
    BY <2>1 DEF ReasoningNext, reasoningVars
  <2>2. CASE part # "engine"
    BY <2>2 DEF ReasoningNext, reasoningVars, Unless
  <2> QED
    BY <2>1, <2>2
<1>11. UNCHANGED part
  BY DEF ReasoningNext, reasoningVars
<1>12. part = "facilitator" =>
          [FacilitatorView!FacilitatorPagesNext]_(FacilitatorView!facilitatorPageVars)
  BY DEF ReasoningNext, reasoningVars, facilitatorPageVars, FacilitatorView!facilitatorPageVars,
         FacilitatorView!facilitatorVars
<1> QED
  BY <1>1, <1>2, <1>3, <1>4, <1>5, <1>6, <1>7, <1>8, <1>9, <1>10, <1>11, <1>12

LEMMA PartsBegin ==
    ASSUME IsFiniteSet(Requests), IsFiniteSet(AgentTasks), ReasoningInit PROVE PartsInv
<1>1. AgentsInv /\ ClusterInv
  BY AgentsBegin, ClusterBegins DEF ReasoningInit
<1>2. RouteInv /\ DealInv
  BY RoutesBegin, DealsBegin DEF ReasoningInit
<1>3. SessionInv /\ CacheInv
  BY SessionBegins, CachesBegin DEF ReasoningInit
<1>4. PageInv /\ WalletPageInv /\ PlanningInv
  BY PagesBegin, WalletBegins, ChainBegins DEF ReasoningInit
<1>5. part = "facilitator" => FacilitatorInv
  BY FacilitatorBegins DEF ReasoningInit
<1> QED
  BY <1>1, <1>2, <1>3, <1>4, <1>5 DEF PartsInv

LEMMA PartsStep ==
    ASSUME IsFiniteSet(Requests), IsFiniteSet(AgentTasks), PartsInv, [ReasoningNext]_reasoningVars
    PROVE  PartsInv'
<1>1. AgentsInv' /\ ClusterInv'
  BY PartSteps, AgentsStep, ClusterStep DEF PartsInv
<1>2. RouteInv' /\ DealInv'
  BY PartSteps, RoutesStep, DealsStep DEF PartsInv
<1>3. SessionInv' /\ CacheInv'
  BY PartSteps, SessionStep, CachesStep DEF PartsInv
<1>4. PageInv' /\ WalletPageInv' /\ PlanningInv'
  BY PartSteps, PagesStep, WalletStep, ChainStep DEF PartsInv
<1>5. part' = "facilitator" => FacilitatorInv'
  BY PartSteps, FacilitatorStep DEF PartsInv
<1> QED
  BY <1>1, <1>2, <1>3, <1>4, <1>5 DEF PartsInv

LEMMA PartsKeepPromises ==
    ASSUME IsFiniteSet(AgentTasks), PartsInv PROVE PromisesKept
<1>1. Agents!BudgetKept /\ Agents!AllCalled
  BY AgentsKeepBudget DEF PartsInv
<1>2. Cluster!AgentSound /\ Middlewares!RoutesSound
  BY ClusterKept, RoutesKept DEF PartsInv
<1>3. Deals!DealsSound /\ Session!ApprovalKept
  BY DealsKept, SessionKept DEF PartsInv
<1>4. Caches!FreshEnough /\ Pages!PageCurrent
  BY CachesPromise, PagesAreCurrent DEF PartsInv
<1>5. WalletView!WalletPagesSound
  BY WalletKept DEF PartsInv
<1>6. part = "facilitator" => FacilitatorView!FacilitatorPagesSound
  BY FacilitatorKept DEF PartsInv
<1> QED
  BY <1>1, <1>2, <1>3, <1>4, <1>5, <1>6 DEF PromisesKept

\* What those who pay and ask rely on is so, for any number of tasks and payments at once.
THEOREM PromisesAreKept ==
    ASSUME IsFiniteSet(Requests), IsFiniteSet(AgentTasks) PROVE ReasoningSpec => []PromisesKept
<1>1. ReasoningInit => PartsInv
  BY PartsBegin
<1>2. PartsInv /\ [ReasoningNext]_reasoningVars => PartsInv'
  BY PartsStep
<1>3. PartsInv => PromisesKept
  BY PartsKeepPromises
<1> QED
  BY <1>1, <1>2, <1>3, PTL DEF ReasoningSpec

\* What is computed from the plans of MCTasks and from the proposals of an agent is what it should
\* be, whatever the calls of the chain answer. Of the plan this needs its shape only: SortsExactly,
\* CyclesDetected, SucceededValid and TimesCovered are about plans of any size.
THEOREM PlansAreExact ==
    ASSUME IsFiniteSet(Requests), IsFiniteSet(AgentTasks) PROVE ReasoningSpec => []PlansExact
<1>1. ReasoningInit => PartsInv
  BY PartsBegin
<1>2. PartsInv /\ [ReasoningNext]_reasoningVars => PartsInv'
  BY PartsStep
<1>3. PartsInv => PlansExact
  <2> SUFFICES ASSUME PartsInv PROVE PlansExact
    OBVIOUS
  <2>1. PlanningInv /\ AgentsInv
    BY DEF PartsInv
  <2>2. PICK n \in Nat :
           /\ Planning!Ids = 1..n /\ Len(task.deps) = n
           /\ IsGraph(task.deps) /\ ChainShaped
           /\ Timed(1..n) /\ \A s \in 1..n : task.time[s] \in 0..2
    BY <2>1, PlanShaped
  <2>3. Planning!SortExact
    BY <2>2, SortsExactly
  <2>4. Planning!ChainSound
    BY <2>1, <2>2, SucceededValid
  <2>5. Planning!TimeCoversCriticalPath
    BY <2>2, TimesCovered
  <2>6. Planning!DecomposedTimeKnown
    BY DecomposedKnown
  <2>7. Agents!Ordered
    BY <2>1, AgentsOrdered
  <2> QED
    BY <2>3, <2>4, <2>5, <2>6, <2>7 DEF PlansExact
<1> QED
  BY <1>1, <1>2, <1>3, PTL DEF ReasoningSpec

\* Every part stays within its types, for any number of requests, tasks and payments at once.
THEOREM ReasoningTyped ==
    ASSUME Workflow!WorkflowAssumption, PlanAssumption,
           IsFiniteSet(Requests), IsFiniteSet(AgentTasks)
    PROVE  ReasoningSpec => []ReasoningTypeOK
<1> DEFINE All == PartsInv /\ WorkflowInv /\ IInv
<1>1. ReasoningInit => All
  BY PartsBegin, InitWorkflow, Initially DEF ReasoningInit
<1>2. All /\ [ReasoningNext]_reasoningVars => All'
  <2> SUFFICES ASSUME All, [ReasoningNext]_reasoningVars PROVE All'
    OBVIOUS
  <2>1. PartsInv'
    BY PartsStep
  <2>2. WorkflowInv'
    BY NextWorkflow, ReasoningStep
  <2>3. IInv'
    BY Stepwise, PartSteps
  <2> QED
    BY <2>1, <2>2, <2>3
<1>3. All => ReasoningTypeOK
  <2> SUFFICES ASSUME All PROVE ReasoningTypeOK
    OBVIOUS
  <2>1. Workflow!TypeOK /\ TypeOK /\ Planning!TypeOK
    BY DEF WorkflowInv, IInv, PartsInv, PlanningInv
  <2>2. Agents!TypeOK /\ Cluster!TypeOK /\ Middlewares!TypeOK
    BY AgentsTyped, ClusterKept DEF PartsInv, RouteInv
  <2>3. Deals!TypeOK /\ Session!TypeOK /\ Caches!TypeOK
    BY SessionKept DEF PartsInv, DealInv, CacheInv
  <2>4. Pages!TypeOK /\ WalletView!TypeOK
    BY PagesTyped, WalletTyped DEF PartsInv
  <2>5. part = "facilitator" => FacilitatorView!TypeOK
    BY FacilitatorTyped DEF PartsInv
  <2> QED
    BY <2>1, <2>2, <2>3, <2>4, <2>5 DEF ReasoningTypeOK
<1> HIDE DEF All
<1> QED
  BY <1>1, <1>2, <1>3, PTL DEF ReasoningSpec
=============================================================================
