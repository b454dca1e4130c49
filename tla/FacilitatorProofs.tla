------------------------- MODULE FacilitatorProofs -------------------------
(***************************************************************************)
(* The facilitator: Settlement's type correctness, SettledWasPaid and      *)
(* NotifiedWasSettled, for any number of handlers, payments and            *)
(* settlements and any faults; that settlements that take turns implement  *)
(* SettlementLedger; and, at the end, what the rows of WebhookDelivery     *)
(* claim.                                                                  *)
(*                                                                         *)
(* Why they hold: an execution is the only one that knows the id of the    *)
(* settlement it has created (Distinct), nobody else sends its transfer or *)
(* marks anything with it, and it does not go past its confirmation before *)
(* the cluster has executed the transfer.  What it marks without paying    *)
(* for it, its second look has found settled by others (Prepared).  When   *)
(* they take turns, what the only busy one is about to pay is unsettled    *)
(* (Intent), and what was paid is settled or will be by it (PaidFor).      *)
(***************************************************************************)
EXTENDS MCSettlement, WebhookDelivery, FiniteSetTheorems, TLAPS

\* The pcs between the creation of a settlement and the end of the execution
Owner == {"created", "sent", "confirmed", "completed", "failing"}

\* A row that does not exist has not been touched.
FreshUntouched ==
    \A s \in Settlements : status[s] = "none" =>
        /\ transfer[s] = "none"
        /\ s \notin cancelling
        /\ \A t \in Txs : settledBy[t] # s

\* What an execution is about to pay for and to mark
Prepared(h) ==
    /\ handler[h].due \subseteq handler[h].ids
    /\ handler[h].ids \subseteq recorded
    /\ h \in Requests => handler[h].due = handler[h].ids
    /\ h \in Runs /\ handler[h].pc \notin {"idle", "read"} =>
          \A t \in handler[h].ids \ handler[h].due : Settled(t)

\* The settlement an execution has created
Owned(h) ==
    handler[h].pc \in Owner =>
        /\ Sid(h) \in Settlements
        /\ status[Sid(h)] # "none"
        /\ covers[Sid(h)] = handler[h].due

Distinct ==
    \A g, h \in Handlers :
        g # h /\ handler[g].pc \in Owner /\ handler[h].pc \in Owner => Sid(g) # Sid(h)

\* How far the execution has brought it
Advanced(h) ==
    /\ At(h, "created") => transfer[Sid(h)] = "none"
    /\ At(h, "confirmed") \/ At(h, "completed") => transfer[Sid(h)] \in Processed
    /\ handler[h].pc \in Owner \ {"completed"} => \A t \in Txs : settledBy[t] # Sid(h)
    /\ At(h, "completed") => status[Sid(h)] \in {"completed", "cancelled"}
    /\ At(h, "completed") /\ h \in Runs => \A t \in handler[h].ids : Settled(t)

IInv ==
    /\ TypeOK
    /\ FreshUntouched
    /\ \A h \in Handlers : Prepared(h)
    /\ \A h \in Handlers : Owned(h)
    /\ Distinct
    /\ \A h \in Handlers : Advanced(h)
    /\ SettledWasPaid
    /\ NotifiedWasSettled

-----------------------------------------------------------------------------
\* Steps of an execution that leave settledBy alone

LEMMA ReadInductive == ASSUME IInv, NEW h \in Handlers, Read(h) PROVE IInv'
<1> USE DEF Read, At, database
<1>0. Unsettled \subseteq recorded
  BY DEF Unsettled
<1>1. TypeOK'
  <2>1. Unsettled \in SUBSET Txs /\ handler[h] \in Handler
    BY <1>0 DEF IInv, TypeOK
  <2>2. [handler[h] EXCEPT !.pc = "read", !.ids = Unsettled, !.due = Unsettled] \in Handler
    BY <2>1 DEF Handler, PC
  <2>3. handler' = [handler EXCEPT ![h] =
                      [handler[h] EXCEPT !.pc = "read", !.ids = Unsettled, !.due = Unsettled]]
    BY DEF IInv, TypeOK
  <2>4. handler' \in [Handlers -> Handler]
    BY <2>2, <2>3 DEF IInv, TypeOK
  <2>5. QED
    BY <2>4 DEF IInv, TypeOK
<1>2. FreshUntouched' /\ SettledWasPaid' /\ NotifiedWasSettled'
  BY DEF IInv, FreshUntouched, SettledWasPaid, NotifiedWasSettled, Settled
<1>3. ASSUME NEW g \in Handlers PROVE Prepared(g)' /\ Owned(g)' /\ Advanced(g)'
  BY <1>0, <1>3 DEF IInv, TypeOK, Handler, Prepared, Owned, Advanced, Owner, Sid, Settled
<1>4. Distinct'
  BY DEF IInv, TypeOK, Handler, Distinct, Owner, Sid
<1>5. QED
  BY <1>1, <1>2, <1>3, <1>4 DEF IInv

LEMMA CheckInductive == ASSUME IInv, NEW h \in Runs, Check(h) PROVE IInv'
<1> DEFINE still == handler[h].ids \cap Unsettled
<1> USE DEF Check, At, database, Handlers
<1>0. /\ still \subseteq handler[h].ids
      /\ handler[h].ids \subseteq recorded
      /\ \A t \in handler[h].ids \ still : Settled(t)
  BY DEF IInv, Prepared, Unsettled
<1> HIDE DEF still
<1>a. /\ handler[h].pc = "read"
      /\ \/ handler' = [handler EXCEPT ![h] = Idle]
         \/ handler' = [handler EXCEPT ![h].pc = "checked", ![h].due = still]
      /\ UNCHANGED <<recorded, settledBy, status, covers, transfer, cancelling, notified, faults>>
  BY DEF still, Stop
<1>1. TypeOK'
  BY <1>0, <1>a DEF IInv, TypeOK, Handler, PC, Idle
<1>2. FreshUntouched' /\ SettledWasPaid' /\ NotifiedWasSettled'
  BY <1>a DEF IInv, FreshUntouched, SettledWasPaid, NotifiedWasSettled, Settled
<1>3. ASSUME NEW g \in Handlers PROVE Prepared(g)'
  BY <1>0, <1>a, <1>3, SettlementAssumption DEF IInv, TypeOK, Handler, Prepared, Idle, Settled
<1>4. ASSUME NEW g \in Handlers PROVE Owned(g)' /\ Advanced(g)'
  BY <1>a, <1>4 DEF IInv, TypeOK, Handler, Owned, Advanced, Owner, Sid, Idle, Settled
<1>5. Distinct'
  BY <1>a DEF IInv, TypeOK, Handler, Distinct, Owner, Sid, Idle
<1>6. QED
  BY <1>1, <1>2, <1>3, <1>4, <1>5 DEF IInv

LEMMA CreateInductive == ASSUME IInv, NEW h \in Handlers, Create(h) PROVE IInv'
<1> DEFINE s == CHOOSE s \in FreshIds : TRUE
<1>0. s \in Settlements /\ status[s] = "none"
  BY DEF Create, FreshIds
<1> HIDE DEF s
<1>a. /\ At(h, IF h \in Runs THEN "checked" ELSE "read")
      /\ status' = [status EXCEPT ![s] = "pending"]
      /\ covers' = [covers EXCEPT ![s] = handler[h].due]
      /\ handler' = [handler EXCEPT ![h].pc = "created", ![h].sid = s]
      /\ UNCHANGED <<recorded, settledBy, transfer, cancelling, notified, faults>>
  BY DEF Create, s
<1>b. handler[h].pc \in {"checked", "read"}
  BY <1>a DEF At
<1>1. TypeOK'
  BY <1>0, <1>a DEF IInv, TypeOK, Handler, PC, Status
<1>2. FreshUntouched'
  BY <1>0, <1>a DEF IInv, TypeOK, FreshUntouched
<1>3. SettledWasPaid'
  BY <1>0, <1>a DEF IInv, TypeOK, FreshUntouched, SettledWasPaid, Settled, Processed
<1>4. NotifiedWasSettled'
  BY <1>0, <1>a DEF IInv, TypeOK, FreshUntouched, NotifiedWasSettled, Settled, Processed
<1>5. ASSUME NEW g \in Handlers PROVE Prepared(g)' /\ Owned(g)' /\ Advanced(g)'
  BY <1>0, <1>a, <1>b, <1>5 DEF IInv, TypeOK, Handler, FreshUntouched, Prepared, Owned, Advanced, Owner, At, Sid, Settled
<1>6. Distinct'
  BY <1>0, <1>a DEF IInv, TypeOK, Handler, Owned, Distinct, Owner, Sid
<1>7. QED
  BY <1>1, <1>2, <1>3, <1>4, <1>5, <1>6 DEF IInv

LEMMA SendInductive == ASSUME IInv, NEW h \in Handlers, Send(h) PROVE IInv'
<1> USE DEF Send, At, Goto, database
<1>0. /\ Sid(h) \in Settlements /\ status[Sid(h)] # "none"
      /\ transfer[Sid(h)] = "none"
  BY DEF IInv, Owned, Advanced, Owner
<1>1. TypeOK'
  BY <1>0 DEF IInv, TypeOK, Handler, PC, Transfer, Sid
<1>2. FreshUntouched'
  BY <1>0 DEF IInv, TypeOK, FreshUntouched
<1>3. SettledWasPaid' /\ NotifiedWasSettled'
  BY <1>0 DEF IInv, TypeOK, SettledWasPaid, NotifiedWasSettled, Settled, Processed
<1>4. ASSUME NEW g \in Handlers PROVE Prepared(g)' /\ Owned(g)'
  BY <1>4 DEF IInv, TypeOK, Handler, Prepared, Owned, Owner, Sid, Settled
<1>5. ASSUME NEW g \in Handlers PROVE Advanced(g)'
  <2>1. CASE g = h
    BY <1>0, <1>5, <2>1 DEF IInv, TypeOK, Handler, Advanced, Owner, Sid
  <2>2. CASE g # h
    <3>1. handler'[g] = handler[g]
      BY <1>5, <2>2 DEF IInv, TypeOK, Handler
    <3>2. handler[g].pc \in Owner => Sid(g) # Sid(h)
      BY <1>5, <2>2 DEF IInv, Distinct, Owner
    <3>3. QED
      BY <1>5, <3>1, <3>2 DEF IInv, TypeOK, Advanced, Owner, Sid, Settled
  <2>3. QED
    BY <2>1, <2>2
<1>6. Distinct'
  BY DEF IInv, TypeOK, Handler, Distinct, Owner, Sid
<1>7. QED
  BY <1>1, <1>2, <1>3, <1>4, <1>5, <1>6 DEF IInv

LEMMA ConfirmInductive == ASSUME IInv, NEW h \in Handlers, Confirm(h) PROVE IInv'
<1> USE DEF Confirm, At, Goto, database
<1>1. TypeOK'
  BY DEF IInv, TypeOK, Handler, PC
<1>2. FreshUntouched' /\ SettledWasPaid' /\ NotifiedWasSettled'
  BY DEF IInv, FreshUntouched, SettledWasPaid, NotifiedWasSettled, Settled
<1>3. ASSUME NEW g \in Handlers PROVE Prepared(g)' /\ Owned(g)' /\ Advanced(g)'
  BY <1>3 DEF IInv, TypeOK, Handler, Prepared, Owned, Advanced, Owner, Sid, Settled
<1>4. Distinct'
  BY DEF IInv, TypeOK, Handler, Distinct, Owner, Sid
<1>5. QED
  BY <1>1, <1>2, <1>3, <1>4 DEF IInv

\* An execution that stops, or turns to marking its settlement failed
LEMMA LeaveInductive ==
    ASSUME IInv, NEW h \in Handlers, faults' \in 0..MaxFaults,
           \/ handler' = [handler EXCEPT ![h] = Idle]
           \/ /\ h \in Runs
              /\ handler[h].pc \in {"created", "sent", "confirmed"}
              /\ handler' = [handler EXCEPT ![h].pc = "failing"],
           UNCHANGED <<recorded, settledBy, status, covers, transfer, cancelling, notified>>
    PROVE  IInv'
<1>1. TypeOK'
  <2>1. Idle \in Handler
    BY DEF Idle, Handler, PC
  <2>2. [handler[h] EXCEPT !.pc = "failing"] \in Handler
    BY DEF IInv, TypeOK, Handler, PC
  <2>3. handler' \in [Handlers -> Handler]
    BY <2>1, <2>2 DEF IInv, TypeOK
  <2>4. QED
    BY <2>3 DEF IInv, TypeOK
<1>2. FreshUntouched' /\ SettledWasPaid' /\ NotifiedWasSettled'
  BY DEF IInv, FreshUntouched, SettledWasPaid, NotifiedWasSettled, Settled
<1>3. ASSUME NEW g \in Handlers PROVE Prepared(g)'
  <2>1. CASE handler'[g] = handler[g]
    BY <1>3, <2>1 DEF IInv, Prepared, Settled
  <2>2. CASE handler'[g] = Idle
    BY <2>2 DEF Prepared, Idle
  <2>3. CASE /\ handler[g].pc \in {"created", "sent", "confirmed"}
             /\ handler'[g] = [handler[g] EXCEPT !.pc = "failing"]
    BY <1>3, <2>3 DEF IInv, TypeOK, Handler, Prepared, Settled
  <2>4. QED
    BY <1>3, <2>1, <2>2, <2>3 DEF IInv, TypeOK
<1>4. ASSUME NEW g \in Handlers PROVE Owned(g)' /\ Advanced(g)'
  BY <1>4 DEF IInv, TypeOK, Handler, Owned, Advanced, Owner, At, Sid, Idle, Settled
<1>5. Distinct'
  BY DEF IInv, TypeOK, Handler, Distinct, Owner, Sid, Idle
<1>6. QED
  BY <1>1, <1>2, <1>3, <1>4, <1>5 DEF IInv

LEMMA ThrowInductive ==
    ASSUME IInv, NEW h \in Handlers, Throw(h) \/ ConfirmExpired(h) PROVE IInv'
<1>1. faults' \in 0..MaxFaults
  BY SettlementAssumption DEF IInv, TypeOK, Throw, ConfirmExpired, Fault
<1>2. QED
  BY <1>1, LeaveInductive DEF Throw, ConfirmExpired, Caught, Goto, Stop, database

LEMMA NotifyInductive == ASSUME IInv, NEW h \in Runs, Notify(h) PROVE IInv'
<1> USE DEF Notify, At, Stop, database, Handlers
<1>0. /\ Sid(h) \in Settlements /\ transfer[Sid(h)] \in Processed
      /\ \A t \in covers[Sid(h)] : Settled(t)
  BY DEF IInv, Owned, Advanced, Prepared, Owner
<1>1. TypeOK'
  BY <1>0 DEF IInv, TypeOK, Handler, PC, Idle
<1>2. FreshUntouched' /\ SettledWasPaid'
  BY DEF IInv, FreshUntouched, SettledWasPaid, Settled
<1>3. NotifiedWasSettled'
  BY <1>0 DEF IInv, NotifiedWasSettled, Settled
<1>4. ASSUME NEW g \in Handlers PROVE Prepared(g)' /\ Owned(g)' /\ Advanced(g)'
  BY <1>4 DEF IInv, TypeOK, Handler, Prepared, Owned, Advanced, Owner, Sid, Idle, Settled
<1>5. Distinct'
  BY DEF IInv, TypeOK, Handler, Distinct, Owner, Sid, Idle
<1>6. QED
  BY <1>1, <1>2, <1>3, <1>4, <1>5 DEF IInv

LEMMA CompleteInductive == ASSUME IInv, NEW h \in Requests, Complete(h) PROVE IInv'
<1> USE DEF Complete, At, Goto, Handlers
<1>0. /\ Sid(h) \in Settlements /\ status[Sid(h)] # "none"
      /\ handler[h].pc = "confirmed" /\ h \notin Runs
  BY SettlementAssumption DEF IInv, Owned, Owner
<1>1. TypeOK'
  BY <1>0 DEF IInv, TypeOK, Handler, PC, Status
<1>2. FreshUntouched'
  BY <1>0 DEF IInv, TypeOK, FreshUntouched
<1>3. SettledWasPaid' /\ NotifiedWasSettled'
  BY <1>0 DEF IInv, TypeOK, SettledWasPaid, NotifiedWasSettled, Settled
<1>4. ASSUME NEW g \in Handlers PROVE Prepared(g)' /\ Owned(g)' /\ Advanced(g)'
  BY <1>0, <1>4 DEF IInv, TypeOK, Handler, Prepared, Owned, Advanced, Owner, Sid, Settled
<1>5. Distinct'
  BY DEF IInv, TypeOK, Handler, Distinct, Owner, Sid
<1>6. QED
  BY <1>1, <1>2, <1>3, <1>4, <1>5 DEF IInv

LEMMA FailInductive == ASSUME IInv, NEW h \in Runs, Fail(h) PROVE IInv'
<1> USE DEF Fail, At, Stop, Handlers
<1>0. /\ Sid(h) \in Settlements /\ status[Sid(h)] # "none"
      /\ handler[h].pc = "failing" /\ \A t \in Txs : settledBy[t] # Sid(h)
  BY DEF IInv, Owned, Advanced, Owner
<1>1. TypeOK'
  BY <1>0 DEF IInv, TypeOK, Handler, PC, Status, Idle
<1>2. FreshUntouched'
  BY <1>0 DEF IInv, TypeOK, FreshUntouched
<1>3. SettledWasPaid' /\ NotifiedWasSettled'
  BY <1>0 DEF IInv, TypeOK, SettledWasPaid, NotifiedWasSettled, Settled
<1>4. ASSUME NEW g \in Handlers PROVE Prepared(g)' /\ Owned(g)'
  BY <1>0, <1>4 DEF IInv, TypeOK, Handler, Prepared, Owned, Owner, Sid, Idle, Settled
<1>5. ASSUME NEW g \in Handlers PROVE Advanced(g)'
  <2>1. CASE g = h
    BY <1>0, <1>5, <2>1 DEF IInv, TypeOK, Handler, Advanced, Owner, Idle
  <2>2. CASE g # h
    <3>1. handler'[g] = handler[g]
      BY <1>5, <2>2 DEF IInv, TypeOK, Handler
    <3>2. handler[g].pc \in Owner => Sid(g) # Sid(h)
      BY <1>0, <1>5, <2>2 DEF IInv, Distinct, Owner
    <3>3. QED
      BY <1>5, <3>1, <3>2 DEF IInv, TypeOK, Advanced, Owner, Sid, Settled
  <2>3. QED
    BY <2>1, <2>2
<1>6. Distinct'
  BY DEF IInv, TypeOK, Handler, Distinct, Owner, Sid, Idle
<1>7. QED
  BY <1>1, <1>2, <1>3, <1>4, <1>5, <1>6 DEF IInv

-----------------------------------------------------------------------------
\* Marking transactions settled

\* What a marking execution has prepared and paid for is all that the marks need.
LEMMA MarkedWasPaid ==
    ASSUME IInv, NEW h \in Handlers, handler[h].pc \in {"confirmed", "completed"},
           settledBy' = Marked(h),
           status' \in [Settlements -> Status],
           status'[Sid(h)] \in {"completed", "cancelled"},
           \A s \in Settlements : s # Sid(h) => status'[s] = status[s],
           UNCHANGED <<recorded, covers, transfer, notified>>
    PROVE  /\ settledBy' \in [Txs -> Settlements \cup {NoSettlement}]
           /\ \A t \in Txs : settledBy'[t] = IF t \in handler[h].ids THEN Sid(h) ELSE settledBy[t]
           /\ \A t \in Txs : Settled(t) => Settled(t)'
           /\ SettledWasPaid' /\ NotifiedWasSettled'
<1>0. /\ Sid(h) \in Settlements /\ Sid(h) # NoSettlement
      /\ transfer[Sid(h)] \in Processed
      /\ covers[Sid(h)] = handler[h].due
  BY SettlementAssumption DEF IInv, Owned, Advanced, Owner, At
<1>1. \A t \in Txs : settledBy'[t] = IF t \in handler[h].ids THEN Sid(h) ELSE settledBy[t]
  BY DEF Marked
<1>2. settledBy' \in [Txs -> Settlements \cup {NoSettlement}]
  BY <1>0 DEF IInv, TypeOK, Marked
<1>3. \A t \in Txs : Settled(t) => Settled(t)'
  BY <1>0, <1>1 DEF Settled
<1>4. NotifiedWasSettled'
  BY <1>3 DEF IInv, TypeOK, NotifiedWasSettled, Settled
<1>5. ASSUME NEW t \in Txs, Settled(t)'
      PROVE  /\ status'[settledBy'[t]] \in {"completed", "cancelled"}
             /\ transfer[settledBy'[t]] \in Processed
             /\ \E s \in Settlements : t \in covers[s] /\ transfer[s] \in Processed
  <2>1. CASE t \in handler[h].due
    BY <1>0, <1>1, <2>1 DEF IInv, Prepared
  <2>2. CASE t \in handler[h].ids \ handler[h].due
    <3>1. h \in Runs /\ Settled(t)
      BY <2>2 DEF IInv, Prepared, Handlers
    <3>2. QED
      BY <1>0, <1>1, <2>2, <3>1 DEF IInv, SettledWasPaid
  <2>3. CASE t \notin handler[h].ids
    <3>1. settledBy'[t] = settledBy[t] /\ Settled(t)
      BY <1>1, <1>5, <2>3 DEF Settled
    <3>2. settledBy[t] \in Settlements
      BY <3>1 DEF IInv, TypeOK, Settled
    <3>3. QED
      BY <3>1, <3>2 DEF IInv, SettledWasPaid
  <2>4. QED
    BY <2>1, <2>2, <2>3
<1>6. SettledWasPaid'
  BY <1>5 DEF SettledWasPaid, Settled
<1>7. QED
  BY <1>1, <1>2, <1>3, <1>4, <1>6

\* No execution but h is concerned by what h marks.
LEMMA OthersUnmarked ==
    ASSUME IInv, NEW h \in Handlers, handler[h].pc \in {"confirmed", "completed"},
           NEW g \in Handlers, g # h, handler'[g] = handler[g],
           \A t \in Txs : settledBy'[t] = IF t \in handler[h].ids THEN Sid(h) ELSE settledBy[t],
           \A t \in Txs : Settled(t) => Settled(t)',
           \A s \in Settlements : s # Sid(h) => status'[s] = status[s],
           UNCHANGED <<recorded, covers, transfer>>
    PROVE  Prepared(g)' /\ Owned(g)' /\ Advanced(g)'
<1>1. handler[g].pc \in Owner => Sid(g) # Sid(h) /\ Sid(g) \in Settlements
  BY DEF IInv, Distinct, Owned, Owner
<1>2. Prepared(g)'
  BY DEF IInv, TypeOK, Handler, Prepared
<1>3. Owned(g)'
  BY <1>1 DEF IInv, Owned, Sid
<1>4. Advanced(g)'
  <2>1. \A t \in handler[g].ids : t \in Txs
    BY DEF IInv, TypeOK, Handler
  <2>2. QED
    BY <1>1, <2>1 DEF IInv, Advanced, Owner, At, Sid
<1>5. QED
  BY <1>2, <1>3, <1>4

LEMMA MarkInductive == ASSUME IInv, NEW h \in Requests, Mark(h) PROVE IInv'
<1> USE DEF Mark, At, Stop, Handlers
<1>0. /\ Sid(h) \in Settlements /\ status[Sid(h)] \in {"completed", "cancelled"}
      /\ status[Sid(h)] # "none"
  BY DEF IInv, Owned, Advanced, Owner
<1>1. /\ settledBy' \in [Txs -> Settlements \cup {NoSettlement}]
      /\ \A t \in Txs : settledBy'[t] = IF t \in handler[h].ids THEN Sid(h) ELSE settledBy[t]
      /\ \A t \in Txs : Settled(t) => Settled(t)'
      /\ SettledWasPaid' /\ NotifiedWasSettled'
  BY <1>0, MarkedWasPaid DEF IInv, TypeOK
<1>2. TypeOK'
  BY <1>1 DEF IInv, TypeOK, Handler, PC, Idle
<1>3. FreshUntouched'
  BY <1>0, <1>1 DEF IInv, FreshUntouched
<1>4. ASSUME NEW g \in Handlers PROVE Prepared(g)' /\ Owned(g)' /\ Advanced(g)'
  <2>1. CASE g = h
    BY <2>1 DEF IInv, TypeOK, Idle, Prepared, Owned, Advanced, Owner
  <2>2. CASE g # h
    <3>1. handler'[g] = handler[g]
      BY <1>4, <2>2 DEF IInv, TypeOK
    <3>2. QED
      BY <1>1, <1>4, <2>2, <3>1, OthersUnmarked
  <2>3. QED
    BY <2>1, <2>2
<1>5. Distinct'
  BY DEF IInv, TypeOK, Handler, Distinct, Owner, Sid, Idle
<1>6. QED
  BY <1>1, <1>2, <1>3, <1>4, <1>5 DEF IInv

LEMMA CommitInductive == ASSUME IInv, NEW h \in Runs, Commit(h) PROVE IInv'
<1> USE DEF Commit, At, Goto, Handlers
<1>0. /\ Sid(h) \in Settlements /\ Sid(h) # NoSettlement
      /\ status[Sid(h)] # "none" /\ transfer[Sid(h)] \in Processed
      /\ handler[h].pc = "confirmed"
  BY SettlementAssumption DEF IInv, Owned, Advanced, Owner
<1>a. /\ status' \in [Settlements -> Status]
      /\ status'[Sid(h)] = "completed"
      /\ \A s \in Settlements : s # Sid(h) => status'[s] = status[s]
  BY <1>0 DEF IInv, TypeOK, Status
<1>1. /\ settledBy' \in [Txs -> Settlements \cup {NoSettlement}]
      /\ \A t \in Txs : settledBy'[t] = IF t \in handler[h].ids THEN Sid(h) ELSE settledBy[t]
      /\ \A t \in Txs : Settled(t) => Settled(t)'
      /\ SettledWasPaid' /\ NotifiedWasSettled'
  BY <1>0, <1>a, MarkedWasPaid
<1>2. TypeOK'
  BY <1>1, <1>a DEF IInv, TypeOK, Handler, PC
<1>3. FreshUntouched'
  BY <1>0, <1>1, <1>a DEF IInv, FreshUntouched
<1>4. ASSUME NEW g \in Handlers PROVE Prepared(g)' /\ Owned(g)' /\ Advanced(g)'
  <2>1. CASE g = h
    <3>1. handler'[h] = [handler[h] EXCEPT !.pc = "completed"] /\ handler[h] \in Handler
      BY DEF IInv, TypeOK
    <3>2. \A t \in handler[h].ids : Settled(t)'
      BY <1>0, <1>1, <3>1 DEF Settled, Handler
    <3>3. Prepared(h)'
      BY <3>1, <3>2 DEF IInv, Handler, Prepared
    <3>4. Owned(h)'
      BY <1>a, <3>1 DEF IInv, Handler, Owned, Owner, Sid
    <3>5. Advanced(h)'
      BY <1>0, <1>a, <3>1, <3>2 DEF Handler, Advanced, Owner, Sid
    <3>6. QED
      BY <2>1, <3>3, <3>4, <3>5
  <2>2. CASE g # h
    <3>1. handler'[g] = handler[g]
      BY <1>4, <2>2 DEF IInv, TypeOK
    <3>2. QED
      BY <1>0, <1>1, <1>4, <1>a, <2>2, <3>1, OthersUnmarked
  <2>3. QED
    BY <2>1, <2>2
<1>5. Distinct'
  BY DEF IInv, TypeOK, Handler, Distinct, Owner, Sid
<1>6. QED
  BY <1>1, <1>2, <1>3, <1>4, <1>5 DEF IInv

-----------------------------------------------------------------------------
\* Everybody else: the recorder, the canceller, the chain, and crashes

LEMMA RecordInductive == ASSUME IInv, NEW t \in Txs, Record(t) PROVE IInv'
<1>1. TypeOK' /\ FreshUntouched' /\ Distinct' /\ SettledWasPaid' /\ NotifiedWasSettled'
  BY DEF Record, IInv, TypeOK, FreshUntouched, Distinct, Sid, SettledWasPaid,
         NotifiedWasSettled, Settled
<1>2. ASSUME NEW h \in Handlers PROVE Prepared(h)' /\ Owned(h)' /\ Advanced(h)'
  BY <1>2 DEF Record, IInv, Prepared, Owned, Advanced, At, Sid, Settled
<1>3. QED
  BY <1>1, <1>2 DEF IInv

LEMMA CancelInductive ==
    ASSUME IInv, NEW s \in Settlements, CancelRead(s) \/ CancelWrite(s) PROVE IInv'
<1> USE DEF CancelRead, CancelWrite, database
<1>1. TypeOK'
  BY DEF IInv, TypeOK, Status
<1>2. FreshUntouched'
  BY DEF IInv, TypeOK, FreshUntouched
<1>3. Distinct' /\ NotifiedWasSettled'
  BY DEF IInv, Distinct, Sid, NotifiedWasSettled, Settled
<1>4. SettledWasPaid'
  BY DEF IInv, TypeOK, SettledWasPaid, Settled
<1>5. ASSUME NEW h \in Handlers PROVE Prepared(h)' /\ Owned(h)' /\ Advanced(h)'
  BY <1>5 DEF IInv, TypeOK, Prepared, Owned, Advanced, Owner, At, Sid, Settled
<1>6. QED
  BY <1>1, <1>2, <1>3, <1>4, <1>5 DEF IInv

LEMMA ChainInductive ==
    ASSUME IInv, NEW s \in Settlements, Pay(s) \/ Lose(s) PROVE IInv'
<1> USE DEF Pay, Lose, Fault, database
<1>1. TypeOK'
  BY SettlementAssumption DEF IInv, TypeOK, Transfer
<1>2. FreshUntouched'
  BY DEF IInv, TypeOK, FreshUntouched
<1>3. Distinct'
  BY DEF IInv, Distinct, Sid
<1>4. SettledWasPaid' /\ NotifiedWasSettled'
  BY DEF IInv, TypeOK, SettledWasPaid, NotifiedWasSettled, Settled, Processed
<1>5. ASSUME NEW h \in Handlers PROVE Prepared(h)' /\ Owned(h)' /\ Advanced(h)'
  BY <1>5 DEF IInv, TypeOK, Prepared, Owned, Advanced, Owner, At, Sid, Settled, Processed
<1>6. QED
  BY <1>1, <1>2, <1>3, <1>4, <1>5 DEF IInv

LEMMA CrashInductive == ASSUME IInv, Crash PROVE IInv'
<1> USE DEF Crash, Fault, database
<1>1. TypeOK'
  BY SettlementAssumption DEF IInv, TypeOK, Handler, PC, Idle
<1>2. FreshUntouched' /\ SettledWasPaid' /\ NotifiedWasSettled'
  BY DEF IInv, FreshUntouched, SettledWasPaid, NotifiedWasSettled, Settled
<1>3. ASSUME NEW h \in Handlers PROVE Prepared(h)' /\ Owned(h)' /\ Advanced(h)'
  BY <1>3 DEF Idle, Prepared, Owned, Advanced, Owner, At
<1>4. Distinct'
  BY DEF Distinct, Owner, Idle
<1>5. QED
  BY <1>1, <1>2, <1>3, <1>4 DEF IInv

LEMMA StutterInductive == ASSUME IInv, UNCHANGED vars PROVE IInv'
BY DEF IInv, vars, TypeOK, FreshUntouched, Prepared, Owned, Distinct, Advanced, At, Sid,
       SettledWasPaid, NotifiedWasSettled, Settled

-----------------------------------------------------------------------------
\* The theorems

LEMMA InitIInv == Init => IInv
<1> SUFFICES ASSUME Init PROVE IInv
  OBVIOUS
<1>1. TypeOK
  BY SettlementAssumption DEF Init, TypeOK, Status, Transfer, Handler, PC, Idle
<1>2. FreshUntouched /\ SettledWasPaid /\ NotifiedWasSettled
  BY SettlementAssumption DEF Init, FreshUntouched, SettledWasPaid, NotifiedWasSettled, Settled
<1>3. ASSUME NEW h \in Handlers PROVE Prepared(h) /\ Owned(h) /\ Advanced(h)
  BY <1>3 DEF Init, Idle, Prepared, Owned, Advanced, Owner, At
<1>4. Distinct
  BY DEF Init, Distinct, Owner, Idle
<1>5. QED
  BY <1>1, <1>2, <1>3, <1>4 DEF IInv

LEMMA NextIInv == IInv /\ [Next]_vars => IInv'
<1> SUFFICES ASSUME IInv, [Next]_vars PROVE IInv'
  OBVIOUS
<1>1. ASSUME NEW t \in Txs, Record(t) PROVE IInv'
  BY <1>1, RecordInductive
<1>2. ASSUME NEW h \in Requests, RequestStep(h) PROVE IInv'
  <2>1. h \in Handlers
    BY DEF Handlers
  <2>2. QED
    BY <1>2, <2>1, ReadInductive, CreateInductive, SendInductive, ConfirmInductive,
       ThrowInductive, CompleteInductive, MarkInductive DEF RequestStep
<1>3. ASSUME NEW h \in Runs, RunStep(h) PROVE IInv'
  <2>1. h \in Handlers
    BY DEF Handlers
  <2>2. QED
    BY <1>3, <2>1, ReadInductive, CheckInductive, CreateInductive, SendInductive,
       ConfirmInductive, ThrowInductive, CommitInductive, NotifyInductive, FailInductive
       DEF RunStep
<1>4. ASSUME NEW h \in Handlers, Throw(h) PROVE IInv'
  BY <1>4, ThrowInductive
<1>5. CASE ChainStep
  BY <1>5, ChainInductive DEF ChainStep
<1>6. CASE Cancel
  BY <1>6, CancelInductive DEF Cancel
<1>7. CASE Crash
  BY <1>7, CrashInductive
<1>8. CASE UNCHANGED vars
  BY <1>8, StutterInductive
<1>9. QED
  BY <1>1, <1>2, <1>3, <1>4, <1>5, <1>6, <1>7, <1>8 DEF Next

\* The invariant holds in every reachable state of every deployment.
THEOREM InductiveInvariant == Spec => []IInv
<1>1. QED
  BY InitIInv, NextIInv, PTL DEF Spec

\* Rows, transfers and local variables keep their types.
THEOREM TypeCorrect == Spec => []TypeOK
<1>1. IInv => TypeOK
  BY DEF IInv
<1>2. QED
  BY <1>1, InductiveInvariant, PTL

\* However requests, cron runs and cancellations interleave, and whatever fails,
\* no transaction counts as settled before a transfer for it was executed.
THEOREM SettledOnlyIfPaid == Spec => []SettledWasPaid
<1>1. IInv => SettledWasPaid
  BY DEF IInv
<1>2. QED
  BY <1>1, InductiveInvariant, PTL

\* Merchants are notified only of settlements that are executed and stay settled.
THEOREM NotifiedOnlyIfSettled == Spec => []NotifiedWasSettled
<1>1. IInv => NotifiedWasSettled
  BY DEF IInv
<1>2. QED
  BY <1>1, InductiveInvariant, PTL

-----------------------------------------------------------------------------
\* Settlements that take turns

\* What the one busy execution is about to pay has not been settled by anybody.
Intent(h) ==
    /\ ~At(h, "idle") => handler[h].due # {} /\ ~At(h, "failing")
    /\ handler[h].pc \in {"read", "checked", "created", "sent"} =>
          \A t \in handler[h].due : ~Settled(t)

\* A transfer that may still be executed is the busy execution's.
InFlight(s) == transfer[s] = "sent" => \E h \in Handlers : At(h, "sent") /\ Sid(h) = s

\* What was paid is settled, or will be by the execution that has paid it.
PaidFor(s) ==
    transfer[s] = "paid" =>
        \/ \A t \in covers[s] : Settled(t)
        \/ \E h \in Handlers : /\ handler[h].pc \in {"sent", "confirmed", "completed"}
                               /\ Sid(h) = s

Busy(h) == ~At(h, "idle")

TurnsInv ==
    /\ IInv
    /\ \A g, h \in Handlers : Busy(g) /\ Busy(h) => g = h
    /\ \A h \in Handlers : Intent(h)
    /\ \A s \in Settlements : transfer[s] # "expired" /\ InFlight(s) /\ PaidFor(s)

Kept == TurnsInv' /\ [Ledger!Next]_(Ledger!vars)

LEMMA LedgerRests ==
    ASSUME TypeOK, recorded' = recorded,
           \A s \in Settlements : transfer'[s] = "paid" <=> transfer[s] = "paid",
           \A s \in Settlements : transfer[s] = "paid" => covers'[s] = covers[s]
    PROVE  UNCHANGED Ledger!vars
<1>1. \A t \in Txs : Payments(t)' = Payments(t)
  BY DEF Payments
<1> QED
  BY <1>1 DEF Ledger!vars

LEMMA RecordKept ==
    ASSUME TurnsInv, IInv', TakeTurns, NEW t \in Txs, Record(t) PROVE Kept
<1>1. UNCHANGED <<settledBy, status, covers, transfer, handler, cancelling, notified, faults>>
  BY DEF Record
<1>2. TurnsInv'
  BY <1>1 DEF TurnsInv, Busy, At, Intent, InFlight, PaidFor, Settled, Sid
<1>3. \A u \in Txs : Payments(u)' = Payments(u)
  BY <1>1 DEF Payments
<1>4. Ledger!Receive(t)
  BY <1>3 DEF Record, Ledger!Receive
<1> QED
  BY <1>2, <1>4 DEF Kept, Ledger!Next

\* An execution goes on.  What else is under way is nothing, so what it leaves
\* unsettled is unsettled.
LEMMA StepKept ==
    ASSUME TurnsInv, IInv', TakeTurns, NEW h \in Handlers, UNCHANGED <<recorded, transfer>>,
           \A g \in Handlers \ {h} : handler'[g] = handler[g],
           \A s \in Settlements : transfer[s] = "paid" => covers'[s] = covers[s],
           \A t \in Txs : Settled(t) => Settled(t)',
           Busy(h) \/ settledBy' = settledBy,
           Intent(h)',
           At(h, "sent") => /\ At(h, "confirmed")' /\ Sid(h)' = Sid(h)
                            /\ transfer[Sid(h)] # "sent",
           handler[h].pc \in {"confirmed", "completed"} =>
              \/ At(h, "completed")' /\ Sid(h)' = Sid(h)
              \/ \A t \in covers[Sid(h)] : Settled(t)'
    PROVE  Kept
<1>1. TypeOK /\ TypeOK'
  BY DEF TurnsInv, IInv
<1>2. UNCHANGED Ledger!vars
  BY <1>1, LedgerRests
<1>3. \A f, g \in Handlers : Busy(f)' /\ Busy(g)' => f = g
  BY DEF TakeTurns, Busy, At
<1>4. ASSUME NEW g \in Handlers PROVE Intent(g)'
  <2>1. CASE g = h
    BY <2>1
  <2>2. CASE g # h /\ ~Busy(g)
    BY <2>2 DEF Intent, Busy, At
  <2>3. CASE g # h /\ Busy(g)
    <3>1. settledBy' = settledBy
      BY <2>3 DEF TurnsInv
    <3> QED
      BY <2>3, <3>1 DEF TurnsInv, Intent, At, Settled
  <2> QED
    BY <2>1, <2>2, <2>3
<1>5. ASSUME NEW s \in Settlements PROVE transfer'[s] # "expired" /\ InFlight(s)'
  <2>1. transfer[s] # "expired" /\ InFlight(s)
    BY DEF TurnsInv
  <2> QED
    BY <2>1 DEF InFlight, At, Sid
<1>6. ASSUME NEW s \in Settlements PROVE PaidFor(s)'
  <2> SUFFICES ASSUME transfer[s] = "paid" PROVE PaidFor(s)'
    BY DEF PaidFor
  <2>1. PaidFor(s) /\ covers'[s] = covers[s] /\ covers[s] \subseteq Txs
    BY <1>1 DEF TurnsInv, TypeOK
  <2>2. CASE \A t \in covers[s] : Settled(t)
    BY <2>1, <2>2 DEF PaidFor
  <2>3. ASSUME NEW g \in Handlers, handler[g].pc \in {"sent", "confirmed", "completed"},
               Sid(g) = s
        PROVE  PaidFor(s)'
    <3>1. CASE g = h
      BY <2>1, <2>3, <3>1 DEF PaidFor, At
    <3>2. CASE g # h
      BY <2>3, <3>2 DEF PaidFor, Sid
    <3> QED
      BY <3>1, <3>2
  <2> QED
    BY <2>1, <2>2, <2>3 DEF PaidFor
<1> QED
  BY <1>2, <1>3, <1>4, <1>5, <1>6 DEF TurnsInv, Kept

LEMMA ReadKept ==
    ASSUME TurnsInv, IInv', TakeTurns, NEW h \in Handlers, Read(h) PROVE Kept
<1>1. /\ At(h, "idle") /\ Unsettled # {}
      /\ UNCHANGED <<recorded, transfer, settledBy, covers>>
      /\ handler'[h].pc = "read" /\ handler'[h].due = Unsettled
      /\ \A g \in Handlers \ {h} : handler'[g] = handler[g]
  BY DEF Read, database, TurnsInv, IInv, TypeOK, Handler
<1>2. Intent(h)'
  BY <1>1 DEF Intent, At, Unsettled, Settled
<1> QED
  BY <1>1, <1>2, StepKept DEF At, Settled

LEMMA CheckKept ==
    ASSUME TurnsInv, IInv', TakeTurns, NEW h \in Runs, Check(h) PROVE Kept
<1>1. h \in Handlers /\ At(h, "read") /\ UNCHANGED <<recorded, transfer, settledBy, covers>>
  BY DEF Check, database, Handlers
<1>2. /\ \A g \in Handlers \ {h} : handler'[g] = handler[g]
      /\ \/ handler'[h] = Idle
         \/ /\ handler'[h].pc = "checked" /\ handler'[h].due # {}
            /\ handler'[h].due \subseteq Unsettled
  BY <1>1 DEF Check, Stop, TurnsInv, IInv, TypeOK, Handler
<1>3. Intent(h)'
  BY <1>1, <1>2 DEF Intent, At, Unsettled, Settled, Idle
<1> QED
  BY <1>1, <1>2, <1>3, StepKept DEF At, Settled

LEMMA CreateKept ==
    ASSUME TurnsInv, IInv', TakeTurns, NEW h \in Handlers, Create(h) PROVE Kept
<1> DEFINE s == CHOOSE s \in FreshIds : TRUE
<1>0. s \in Settlements /\ status[s] = "none"
  BY DEF Create, FreshIds
<1>1. /\ handler[h].pc \in {"read", "checked"}
      /\ UNCHANGED <<recorded, transfer, settledBy>>
      /\ \A r \in Settlements \ {s} : covers'[r] = covers[r]
      /\ handler' = [handler EXCEPT ![h].pc = "created", ![h].sid = s]
  BY <1>0 DEF Create, At, TurnsInv, IInv, TypeOK
<1> HIDE DEF s
<1>2. transfer[s] = "none"
  BY <1>0 DEF TurnsInv, IInv, FreshUntouched
<1>3. /\ handler'[h].pc = "created" /\ handler'[h].due = handler[h].due
      /\ \A g \in Handlers \ {h} : handler'[g] = handler[g]
  BY <1>1 DEF TurnsInv, IInv, TypeOK, Handler
<1>4. Intent(h)'
  BY <1>1, <1>3 DEF TurnsInv, Intent, At, Settled
<1> QED
  BY <1>0, <1>1, <1>2, <1>3, <1>4, StepKept DEF At, Settled

LEMMA ConfirmKept ==
    ASSUME TurnsInv, IInv', TakeTurns, NEW h \in Handlers, Confirm(h) PROVE Kept
<1>1. /\ At(h, "sent") /\ transfer[Sid(h)] # "sent"
      /\ UNCHANGED <<recorded, transfer, settledBy, covers>>
      /\ handler'[h].pc = "confirmed" /\ handler'[h].due = handler[h].due
      /\ handler'[h].sid = handler[h].sid
      /\ \A g \in Handlers \ {h} : handler'[g] = handler[g]
  BY DEF Confirm, Processed, Goto, database, TurnsInv, IInv, TypeOK, Handler
<1>2. Intent(h)'
  BY <1>1 DEF TurnsInv, Intent, At, Settled
<1> QED
  BY <1>1, <1>2, StepKept DEF At, Sid, Settled

LEMMA CompleteKept ==
    ASSUME TurnsInv, IInv', TakeTurns, NEW h \in Requests, Complete(h) PROVE Kept
<1>1. /\ h \in Handlers /\ At(h, "confirmed")
      /\ UNCHANGED <<recorded, transfer, settledBy, covers>>
      /\ handler'[h].pc = "completed" /\ handler'[h].due = handler[h].due
      /\ handler'[h].sid = handler[h].sid
      /\ \A g \in Handlers \ {h} : handler'[g] = handler[g]
  BY DEF Complete, Goto, Handlers, TurnsInv, IInv, TypeOK, Handler
<1>2. Intent(h)'
  BY <1>1 DEF TurnsInv, Intent, At, Settled
<1> QED
  BY <1>1, <1>2, StepKept DEF At, Sid, Settled

\* What an execution marks includes all that it has paid.
LEMMA MarksAll ==
    ASSUME IInv, NEW h \in Handlers, handler[h].pc \in {"confirmed", "completed"},
           settledBy' = Marked(h)
    PROVE  /\ \A t \in Txs : Settled(t) => Settled(t)'
           /\ \A t \in covers[Sid(h)] : Settled(t)'
<1>1. /\ Sid(h) \in Settlements /\ Sid(h) # NoSettlement
      /\ covers[Sid(h)] = handler[h].due /\ covers[Sid(h)] \subseteq Txs
      /\ handler[h].due \subseteq handler[h].ids
  BY SettlementAssumption DEF IInv, TypeOK, Owned, Owner, Prepared
<1>2. \A t \in Txs : settledBy'[t] = IF t \in handler[h].ids THEN Sid(h) ELSE settledBy[t]
  BY DEF Marked
<1> QED
  BY <1>1, <1>2 DEF Settled

LEMMA MarkKept ==
    ASSUME TurnsInv, IInv', TakeTurns, NEW h \in Requests, Mark(h) PROVE Kept
<1>1. /\ h \in Handlers /\ At(h, "completed") /\ settledBy' = Marked(h)
      /\ UNCHANGED <<recorded, transfer, covers>> /\ handler'[h] = Idle
      /\ \A g \in Handlers \ {h} : handler'[g] = handler[g]
  BY DEF Mark, Stop, Handlers, TurnsInv, IInv, TypeOK
<1>2. /\ \A t \in Txs : Settled(t) => Settled(t)'
      /\ \A t \in covers[Sid(h)] : Settled(t)'
  BY <1>1, MarksAll DEF TurnsInv, At
<1>3. Intent(h)' /\ Busy(h)
  BY <1>1 DEF Intent, Busy, At, Idle
<1> QED
  BY <1>1, <1>2, <1>3, StepKept DEF At

LEMMA CommitKept ==
    ASSUME TurnsInv, IInv', TakeTurns, NEW h \in Runs, Commit(h) PROVE Kept
<1>1. /\ h \in Handlers /\ At(h, "confirmed") /\ settledBy' = Marked(h)
      /\ UNCHANGED <<recorded, transfer, covers>>
      /\ handler'[h].pc = "completed" /\ handler'[h].due = handler[h].due
      /\ \A g \in Handlers \ {h} : handler'[g] = handler[g]
  BY DEF Commit, Goto, Handlers, TurnsInv, IInv, TypeOK, Handler
<1>2. /\ \A t \in Txs : Settled(t) => Settled(t)'
      /\ \A t \in covers[Sid(h)] : Settled(t)'
  BY <1>1, MarksAll DEF TurnsInv, At
<1>3. Intent(h)' /\ Busy(h)
  BY <1>1 DEF TurnsInv, Intent, Busy, At
<1> QED
  BY <1>1, <1>2, <1>3, StepKept DEF At

LEMMA NotifyKept ==
    ASSUME TurnsInv, IInv', TakeTurns, NEW h \in Runs, Notify(h) PROVE Kept
<1>1. /\ h \in Handlers /\ At(h, "completed")
      /\ UNCHANGED <<recorded, transfer, covers, settledBy>> /\ handler'[h] = Idle
      /\ \A g \in Handlers \ {h} : handler'[g] = handler[g]
  BY DEF Notify, Stop, database, Handlers, TurnsInv, IInv, TypeOK
<1>2. \A t \in covers[Sid(h)] : Settled(t)
  BY <1>1 DEF TurnsInv, IInv, Owned, Owner, Prepared, Advanced, At
<1>3. Intent(h)'
  BY <1>1 DEF Intent, At, Idle
<1> QED
  BY <1>1, <1>2, <1>3, StepKept DEF At, Settled

LEMMA SendKept ==
    ASSUME TurnsInv, IInv', TakeTurns, NEW h \in Handlers, Send(h) PROVE Kept
<1>1. /\ At(h, "created") /\ Sid(h) \in Settlements /\ transfer[Sid(h)] = "none"
  BY DEF Send, TurnsInv, IInv, Owned, Owner, Advanced, At
<1>2. /\ UNCHANGED <<recorded, covers, settledBy>>
      /\ transfer'[Sid(h)] = "sent"
      /\ \A s \in Settlements \ {Sid(h)} : transfer'[s] = transfer[s]
      /\ handler'[h].pc = "sent" /\ handler'[h].due = handler[h].due
      /\ Sid(h)' = Sid(h)
      /\ \A g \in Handlers \ {h} : handler'[g] = handler[g]
  BY <1>1 DEF Send, Goto, database, Sid, TurnsInv, IInv, TypeOK, Handler
<1>3. UNCHANGED Ledger!vars
  BY <1>1, <1>2, LedgerRests DEF TurnsInv, IInv
<1>4. \A f, g \in Handlers : Busy(f)' /\ Busy(g)' => f = g
  BY DEF TakeTurns, Busy, At
<1>5. \A g \in Handlers : Intent(g)'
  BY <1>1, <1>2 DEF TurnsInv, Intent, At, Settled
<1>6. ASSUME NEW s \in Settlements
      PROVE  transfer'[s] # "expired" /\ InFlight(s)' /\ PaidFor(s)'
  <2>1. transfer[s] # "expired" /\ InFlight(s) /\ PaidFor(s)
    BY DEF TurnsInv
  <2>2. CASE s = Sid(h)
    BY <1>2, <2>2 DEF InFlight, PaidFor, At
  <2>3. CASE s # Sid(h)
    BY <1>1, <1>2, <2>1, <2>3 DEF InFlight, PaidFor, At, Sid, Settled
  <2> QED
    BY <2>2, <2>3
<1> QED
  BY <1>3, <1>4, <1>5, <1>6 DEF TurnsInv, Kept

\* The chain executes the transfer of the busy execution, for transactions that
\* nothing has paid yet.
LEMMA PayKept ==
    ASSUME TurnsInv, IInv', TakeTurns, NEW s \in Settlements, Pay(s) PROVE Kept
<1>1. /\ transfer[s] = "sent" /\ transfer'[s] = "paid"
      /\ \A r \in Settlements \ {s} : transfer'[r] = transfer[r]
      /\ UNCHANGED <<recorded, settledBy, covers, handler>>
  BY DEF Pay, database, TurnsInv, IInv, TypeOK
<1>2. PICK h \in Handlers : At(h, "sent") /\ Sid(h) = s
  BY <1>1 DEF TurnsInv, InFlight
<1>3. /\ covers[s] # {} /\ covers[s] \subseteq recorded /\ covers[s] \subseteq Txs
      /\ \A t \in covers[s] : ~Settled(t)
  BY <1>2 DEF TurnsInv, IInv, TypeOK, Owned, Owner, Prepared, Intent, At
<1>4. ASSUME NEW t \in covers[s] PROVE Payments(t) = {} /\ Payments(t)' = {s}
  <2>1. ASSUME NEW r \in Settlements, t \in covers[r], transfer[r] = "paid" PROVE FALSE
    <3>1. PICK g \in Handlers : handler[g].pc \in {"sent", "confirmed", "completed"} /\ Sid(g) = r
      BY <1>3, <2>1 DEF TurnsInv, PaidFor
    <3>2. g = h
      BY <1>2, <3>1 DEF TurnsInv, Busy, At
    <3> QED
      BY <1>1, <1>2, <2>1, <3>1, <3>2
  <2> QED
    BY <1>1, <2>1 DEF Payments
<1>5. ASSUME NEW t \in Txs \ covers[s] PROVE Payments(t)' = Payments(t)
  BY <1>1 DEF Payments
<1>6. Ledger!PayOut(covers[s])
  <2>1. ASSUME NEW t \in covers[s]
        PROVE  Cardinality(Payments(t)) = 0 /\ Cardinality(Payments(t)') = 1
    BY <1>4, FS_EmptySet, FS_Singleton
  <2>2. \A t \in covers[s] : t \in recorded /\ [u \in Txs |-> Cardinality(Payments(u))][t] = 0
    BY <1>3, <2>1
  <2>3. [t \in Txs |-> Cardinality(Payments(t))]'
          = [t \in Txs |-> IF t \in covers[s] THEN 1
                           ELSE [u \in Txs |-> Cardinality(Payments(u))][t]]
    BY <1>5, <2>1
  <2> QED
    BY <1>1, <1>3, <2>2, <2>3 DEF Ledger!PayOut
<1>7. TurnsInv'
  <2>1. ASSUME NEW r \in Settlements
        PROVE  transfer'[r] # "expired" /\ InFlight(r)' /\ PaidFor(r)'
    BY <1>1, <1>2 DEF TurnsInv, InFlight, PaidFor, At, Sid, Settled
  <2> QED
    BY <1>1, <2>1 DEF TurnsInv, Busy, At, Intent, Settled
<1>8. covers[s] \in SUBSET Txs
  BY <1>3
<1> QED
  BY <1>6, <1>7, <1>8 DEF Kept, Ledger!Next

LEMMA LoseKept ==
    ASSUME TurnsInv, IInv', TakeTurns, NEW s \in Settlements, Lose(s) PROVE Kept
<1>1. /\ transfer[s] = "sent" /\ transfer'[s] = "rejected"
      /\ \A r \in Settlements \ {s} : transfer'[r] = transfer[r]
      /\ UNCHANGED <<recorded, settledBy, covers, handler>>
  BY DEF Lose, TakeTurns, database, TurnsInv, IInv, TypeOK
<1>2. UNCHANGED Ledger!vars
  BY <1>1, LedgerRests DEF TurnsInv, IInv
<1>3. ASSUME NEW r \in Settlements
      PROVE  transfer'[r] # "expired" /\ InFlight(r)' /\ PaidFor(r)'
  BY <1>1 DEF TurnsInv, InFlight, PaidFor, At, Sid, Settled
<1> QED
  BY <1>1, <1>2, <1>3 DEF Kept, TurnsInv, Busy, At, Intent, Settled

\* Cancelling changes a status that nothing here depends on.
LEMMA RestKept ==
    ASSUME TurnsInv, IInv', UNCHANGED <<recorded, settledBy, covers, transfer, handler>>
    PROVE  Kept
<1>1. UNCHANGED Ledger!vars
  BY LedgerRests DEF TurnsInv, IInv
<1>2. ASSUME NEW r \in Settlements
      PROVE  transfer'[r] # "expired" /\ InFlight(r)' /\ PaidFor(r)'
  BY DEF TurnsInv, InFlight, PaidFor, At, Sid, Settled
<1> QED
  BY <1>1, <1>2 DEF Kept, TurnsInv, Busy, At, Intent, Settled

LEMMA TurnsKept == TurnsInv /\ [Next /\ TakeTurns]_vars => Kept
<1> SUFFICES ASSUME TurnsInv, [Next /\ TakeTurns]_vars PROVE Kept
  OBVIOUS
<1>1. IInv'
  BY NextIInv DEF TurnsInv
<1>2. CASE UNCHANGED vars
  BY <1>1, <1>2, RestKept DEF vars
<1>3. CASE Next /\ TakeTurns
  <2> USE <1>1, <1>3
  <2>1. ASSUME NEW t \in Txs, Record(t) PROVE Kept
    BY <2>1, RecordKept
  <2>2. ASSUME NEW h \in Handlers, ConfirmExpired(h) PROVE FALSE
    BY <2>2 DEF ConfirmExpired, At, TurnsInv, IInv, Owned, Owner
  <2>3. ASSUME NEW h \in Requests, RequestStep(h) PROVE Kept
    <3>1. h \in Handlers
      BY DEF Handlers
    <3> QED
      BY <2>2, <2>3, <3>1, ReadKept, CreateKept, SendKept, ConfirmKept, CompleteKept, MarkKept
      DEF RequestStep
  <2>4. ASSUME NEW h \in Runs, RunStep(h) PROVE Kept
    <3>1. h \in Handlers
      BY DEF Handlers
    <3>2. ~Fail(h)
      BY <3>1 DEF Fail, At, TurnsInv, Intent
    <3> QED
      BY <2>2, <2>4, <3>1, <3>2, ReadKept, CheckKept, CreateKept, SendKept, ConfirmKept,
         CommitKept, NotifyKept DEF RunStep
  <2>5. ASSUME NEW h \in Handlers, Throw(h) PROVE FALSE
    BY <2>5 DEF TakeTurns
  <2>6. CASE ChainStep
    BY <2>6, PayKept, LoseKept DEF ChainStep
  <2>7. CASE Cancel
    BY <2>7, RestKept DEF Cancel, CancelRead, CancelWrite, database
  <2>8. ~Crash
    BY DEF TakeTurns
  <2> QED
    BY <2>1, <2>3, <2>4, <2>5, <2>6, <2>7, <2>8 DEF Next
<1> QED
  BY <1>2, <1>3

LEMMA InitTurns == Init => TurnsInv /\ Ledger!Init
<1> SUFFICES ASSUME Init PROVE TurnsInv /\ Ledger!Init
  OBVIOUS
<1>1. TurnsInv
  BY InitIInv DEF Init, TurnsInv, Busy, At, Idle, Intent, InFlight, PaidFor
<1>2. \A t \in Txs : Cardinality(Payments(t)) = 0
  <2>1. \A t \in Txs : Payments(t) = {}
    BY DEF Init, Payments
  <2> QED
    BY <2>1, FS_EmptySet
<1>3. Ledger!Init
  BY <1>2 DEF Init, Ledger!Init
<1> QED
  BY <1>1, <1>3

\* Requests and cron runs that take turns pay out every transaction at most once,
\* and only what has been received, for any number of them, transactions and ids,
\* and whatever is rejected or cancelled meanwhile.
THEOREM TurnsPayOnce == ExclusiveSpec => PaidOutOnce
<1>1. Init => Ledger!Init
  BY InitTurns
<1>2. Init => TurnsInv
  BY InitTurns
<1>3. TurnsInv /\ [Next /\ TakeTurns]_vars => TurnsInv' /\ [Ledger!Next]_(Ledger!vars)
  BY TurnsKept DEF Kept
<1> QED
  BY <1>1, <1>2, <1>3, PTL DEF ExclusiveSpec, PaidOutOnce, Ledger!Spec
-----------------------------------------------------------------------------
(***************************************************************************)
(* WebhookDelivery: what a row claims was so, for any number of webhooks,  *)
(* executions and sweeps, any mishaps and any maxRetries.                  *)
(*                                                                         *)
(* Executions count from a row that others may have changed since they     *)
(* read it.  It holds all the same because what they have read was true    *)
(* of the past, deliveries that went wrong are never fewer later, and a    *)
(* row is only loaded while it has attempts left (Counted).                *)
(***************************************************************************)
\* What an execution that is under way has read, and what it has seen
Counted(e) ==
    ~ExecAt(e, "idle") =>
        /\ Hook(e) \in Hooks
        /\ exec[e].seen < MaxAttempts /\ exec[e].seen <= tries[Hook(e)]
        /\ ExecAt(e, "error") => exec[e].seen + 1 <= tries[Hook(e)]
        /\ ExecAt(e, "ok") => Hook(e) \in received

AttemptsLeft == \A h \in Hooks : row[h].status \in {"none", "pending"} => row[h].attempts < MaxAttempts

DeliveryInv ==
    /\ DeliveryTypeOK
    /\ AttemptsLeft
    /\ AttemptsWereMade
    /\ CompletedWasReceived
    /\ \A e \in Executions : Counted(e)

USE WebhookAssumption

-----------------------------------------------------------------------------
\* An execution goes on as r, and rows, timers and deliveries that went wrong are as
\* they were: what it has read is still true.
LEMMA ExecStep ==
    ASSUME DeliveryInv, NEW e \in Executions, NEW r \in Exec,
           exec' = [exec EXCEPT ![e] = r], UNCHANGED row,
           tries' \in [Hooks -> 0..MaxAttempts], \A h \in Hooks : tries[h] <= tries'[h],
           received \subseteq received', received' \subseteq Hooks,
           due' \in [Hooks -> BOOLEAN], timers' \in [Hooks -> Nat], configured' \in BOOLEAN,
           queue' \in [Sweeps -> SUBSET Hooks], mishaps' \in 0..MaxMishaps,
           r.pc # "idle" =>
              /\ r.hook \in Hooks /\ r.seen < MaxAttempts /\ r.seen <= tries'[r.hook]
              /\ r.pc = "error" => r.seen + 1 <= tries'[r.hook]
              /\ r.pc = "ok" => r.hook \in received'
    PROVE  DeliveryInv'
<1>1. \A i \in Executions : exec'[i] = IF i = e THEN r ELSE exec[i]
  BY DEF DeliveryInv, DeliveryTypeOK
<1>2. DeliveryTypeOK'
  BY DEF DeliveryInv, DeliveryTypeOK
<1>3. AttemptsLeft' /\ CompletedWasReceived'
  BY DEF DeliveryInv, AttemptsLeft, CompletedWasReceived
<1>4. AttemptsWereMade'
  BY DEF DeliveryInv, DeliveryTypeOK, Row, AttemptsWereMade
<1>5. ASSUME NEW i \in Executions PROVE Counted(i)'
  <2>1. CASE i = e
    BY <1>1, <2>1 DEF Counted, ExecAt, Hook
  <2>2. CASE i # e
    <3>1. exec'[i] = exec[i] /\ Counted(i)
      BY <1>1, <2>2 DEF DeliveryInv
    <3>2. exec[i].seen \in 0..MaxAttempts
      BY DEF DeliveryInv, DeliveryTypeOK, Exec
    <3> QED
      BY <3>1, <3>2 DEF Counted, ExecAt, Hook, DeliveryInv, DeliveryTypeOK
  <2> QED
    BY <2>1, <2>2
<1> QED
  BY <1>2, <1>3, <1>4, <1>5 DEF DeliveryInv

\* The same when no delivery has gone wrong
LEMMA KeptStep ==
    ASSUME DeliveryInv, NEW e \in Executions, NEW r \in Exec,
           exec' = [exec EXCEPT ![e] = r], UNCHANGED <<row, tries>>,
           received \subseteq received', received' \subseteq Hooks,
           due' \in [Hooks -> BOOLEAN], timers' \in [Hooks -> Nat], configured' \in BOOLEAN,
           queue' \in [Sweeps -> SUBSET Hooks], mishaps' \in 0..MaxMishaps,
           r.pc # "idle" =>
              /\ r.hook \in Hooks /\ r.seen < MaxAttempts /\ r.seen <= tries[r.hook]
              /\ r.pc = "error" => r.seen + 1 <= tries[r.hook]
              /\ r.pc = "ok" => r.hook \in received'
    PROVE  DeliveryInv'
<1>1. tries' \in [Hooks -> 0..MaxAttempts] /\ \A h \in Hooks : tries[h] <= tries'[h]
  BY DEF DeliveryInv, DeliveryTypeOK
<1>2. tries' = tries
  OBVIOUS
<1> QED
  BY <1>1, <1>2, ExecStep

LEMMA RestTyped ==
    ASSUME DeliveryInv, UNCHANGED <<due, timers, configured, queue, mishaps>>
    PROVE  /\ due' \in [Hooks -> BOOLEAN] /\ timers' \in [Hooks -> Nat]
           /\ configured' \in BOOLEAN /\ queue' \in [Sweeps -> SUBSET Hooks]
           /\ mishaps' \in 0..MaxMishaps
BY DEF DeliveryInv, DeliveryTypeOK

\* A row is rewritten while nothing is begun: what executions have read of it is theirs.
LEMMA RowStep ==
    ASSUME DeliveryInv, NEW h \in Hooks, NEW r \in Row, row' = [row EXCEPT ![h] = r],
           exec' \in [Executions -> Exec],
           \A e \in Executions : exec'[e] = exec[e] \/ exec'[e] = IdleExec
                                 \/ exec'[e] = [pc |-> "begin", hook |-> h, seen |-> 0],
           due' \in [Hooks -> BOOLEAN], timers' \in [Hooks -> Nat],
           UNCHANGED <<configured, queue, tries, received, mishaps>>,
           r.status \in {"none", "pending"} => r.attempts < MaxAttempts,
           r.attempts <= tries[h], r.status = "completed" => h \in received
    PROVE  DeliveryInv'
<1>1. \A k \in Hooks : row'[k] = IF k = h THEN r ELSE row[k]
  BY DEF DeliveryInv, DeliveryTypeOK
<1>2. DeliveryTypeOK'
  BY DEF DeliveryInv, DeliveryTypeOK
<1>3. AttemptsLeft' /\ CompletedWasReceived' /\ AttemptsWereMade'
  BY <1>1 DEF DeliveryInv, AttemptsLeft, CompletedWasReceived, AttemptsWereMade
<1>4. ASSUME NEW e \in Executions PROVE Counted(e)'
  <2>1. CASE exec'[e] = exec[e]
    BY <2>1 DEF DeliveryInv, Counted, ExecAt, Hook
  <2>2. CASE exec'[e] = IdleExec
    BY <2>2 DEF IdleExec, Counted, ExecAt
  <2>3. CASE exec'[e] = [pc |-> "begin", hook |-> h, seen |-> 0]
    BY <2>3 DEF DeliveryInv, DeliveryTypeOK, Counted, ExecAt, Hook
  <2> QED
    BY <2>1, <2>2, <2>3
<1> QED
  BY <1>2, <1>3, <1>4 DEF DeliveryInv

\* Nothing changes but the clock, timers, sweeps and the configuration; executions may
\* be lost.
LEMMA OtherStep ==
    ASSUME DeliveryInv, UNCHANGED <<row, tries, received>>,
           exec' \in [Executions -> Exec],
           \A e \in Executions : exec'[e] = exec[e] \/ exec'[e] = IdleExec,
           due' \in [Hooks -> BOOLEAN], timers' \in [Hooks -> Nat], configured' \in BOOLEAN,
           queue' \in [Sweeps -> SUBSET Hooks], mishaps' \in 0..MaxMishaps
    PROVE  DeliveryInv'
<1>1. DeliveryTypeOK'
  BY DEF DeliveryInv, DeliveryTypeOK
<1>2. AttemptsLeft' /\ CompletedWasReceived' /\ AttemptsWereMade'
  BY DEF DeliveryInv, AttemptsLeft, CompletedWasReceived, AttemptsWereMade
<1>3. ASSUME NEW e \in Executions PROVE Counted(e)'
  <2>1. CASE exec'[e] = exec[e]
    BY <2>1 DEF DeliveryInv, Counted, ExecAt, Hook
  <2>2. CASE exec'[e] = IdleExec
    BY <2>2 DEF IdleExec, Counted, ExecAt
  <2> QED
    BY <2>1, <2>2
<1> QED
  BY <1>1, <1>2, <1>3 DEF DeliveryInv

LEMMA IdleIsExec == IdleExec \in Exec /\ IdleExec.pc = "idle"
BY DEF IdleExec, Exec, ExecPC

-----------------------------------------------------------------------------
\* What starts a delivery

LEMMA EnqueueKeeps ==
    ASSUME DeliveryInv, NEW e \in Executions, NEW h \in Hooks, Enqueue(e, h)
    PROVE  DeliveryInv'
<1> DEFINE r == [row[h] EXCEPT !.status = "pending"]
<1>1. row[h] \in Row /\ row[h].status = "none"
  BY DEF Enqueue, DeliveryInv, DeliveryTypeOK
<1>2. r \in Row /\ r.status = "pending" /\ r.attempts = row[h].attempts
  BY <1>1 DEF Row
<1>3. r.attempts < MaxAttempts /\ r.attempts <= tries[h]
  BY <1>1, <1>2 DEF DeliveryInv, AttemptsLeft, AttemptsWereMade
<1>4. row' = [row EXCEPT ![h] = r]
  BY DEF Enqueue
<1> HIDE DEF r
<1>5. [pc |-> "begin", hook |-> h, seen |-> 0] \in Exec
  BY DEF Exec, ExecPC
<1>6. exec' = [exec EXCEPT ![e] = [pc |-> "begin", hook |-> h, seen |-> 0]]
  BY DEF Enqueue, Deliver
<1>7. /\ exec' \in [Executions -> Exec]
      /\ \A i \in Executions : \/ exec'[i] = exec[i]
                               \/ exec'[i] = [pc |-> "begin", hook |-> h, seen |-> 0]
  BY <1>5, <1>6 DEF DeliveryInv, DeliveryTypeOK
<1>8. /\ due' \in [Hooks -> BOOLEAN] /\ timers' \in [Hooks -> Nat]
      /\ UNCHANGED <<configured, queue, tries, received, mishaps>>
  BY DEF Enqueue, DeliveryInv, DeliveryTypeOK
<1> QED
  BY <1>2, <1>3, <1>4, <1>7, <1>8, RowStep

\* deliverWebhook is called for a row, by a timer or a sweep.
LEMMA DeliverKeeps ==
    ASSUME DeliveryInv, NEW e \in Executions, NEW h \in Hooks, Deliver(e, h),
           UNCHANGED <<row, tries, received>>,
           due' \in [Hooks -> BOOLEAN], timers' \in [Hooks -> Nat], configured' \in BOOLEAN,
           queue' \in [Sweeps -> SUBSET Hooks], mishaps' \in 0..MaxMishaps
    PROVE  DeliveryInv'
<1> DEFINE r == [pc |-> "begin", hook |-> h, seen |-> 0]
<1>1. r \in Exec /\ r.pc = "begin" /\ r.hook = h /\ r.seen = 0
  BY DEF Exec, ExecPC
<1>2. exec' = [exec EXCEPT ![e] = r]
  BY DEF Deliver
<1> HIDE DEF r
<1>3. received' \subseteq Hooks /\ 0 < MaxAttempts /\ 0 <= tries[h]
  BY DEF DeliveryInv, DeliveryTypeOK
<1> QED
  BY <1>1, <1>2, <1>3, KeptStep

LEMMA StartKeeps ==
    ASSUME DeliveryInv, \/ \E e \in Callers, h \in Hooks : Enqueue(e, h) \/ TimerFires(e, h)
                        \/ \E h \in Hooks : Time(h)
                        \/ \E s \in Sweeps : SweepStep(s)
    PROVE  DeliveryInv'
<1>1. ASSUME NEW e \in Callers, NEW h \in Hooks, Enqueue(e, h) PROVE DeliveryInv'
  BY <1>1, EnqueueKeeps DEF Executions
<1>2. ASSUME NEW e \in Callers, NEW h \in Hooks, TimerFires(e, h) PROVE DeliveryInv'
  <2>1. timers' \in [Hooks -> Nat] /\ due' \in [Hooks -> BOOLEAN] /\ configured' \in BOOLEAN
        /\ queue' \in [Sweeps -> SUBSET Hooks] /\ mishaps' \in 0..MaxMishaps
    BY <1>2 DEF TimerFires, DeliveryInv, DeliveryTypeOK
  <2> QED
    BY <1>2, <2>1, DeliverKeeps DEF TimerFires, Executions
<1>3. ASSUME NEW h \in Hooks, Time(h) PROVE DeliveryInv'
  BY <1>3, OtherStep DEF Time, DeliveryInv, DeliveryTypeOK
<1>4. ASSUME NEW s \in Sweeps, Sweep(s) PROVE DeliveryInv'
  BY <1>4, OtherStep DEF Sweep, Due, DeliveryInv, DeliveryTypeOK
<1>5. ASSUME NEW s \in Sweeps, NEW h \in Hooks, SweepNext(s, h) PROVE DeliveryInv'
  <2>1. timers' \in [Hooks -> Nat] /\ due' \in [Hooks -> BOOLEAN] /\ configured' \in BOOLEAN
        /\ queue' \in [Sweeps -> SUBSET Hooks] /\ mishaps' \in 0..MaxMishaps
    BY <1>5 DEF SweepNext, DeliveryInv, DeliveryTypeOK
  <2> QED
    BY <1>5, <2>1, DeliverKeeps DEF SweepNext, Executions
<1> QED
  BY <1>1, <1>2, <1>3, <1>4, <1>5 DEF SweepStep

-----------------------------------------------------------------------------
\* deliverWebhook

LEMMA LoadKeeps ==
    ASSUME DeliveryInv, NEW e \in Executions, Load(e)
    PROVE  DeliveryInv'
<1> DEFINE h == Hook(e)
<1>1. /\ exec[e] \in Exec /\ exec[e].pc = "begin" /\ h \in Hooks
      /\ UNCHANGED <<row, due, timers, configured, queue, tries, received, mishaps>>
  BY DEF Load, DeliveryInv, DeliveryTypeOK, Counted, ExecAt
<1>2. received' \subseteq Hooks
  BY <1>1 DEF DeliveryInv, DeliveryTypeOK
<1>3. CASE row[h].status = "pending"
  <2> DEFINE x == [exec[e] EXCEPT !.pc = "loaded"]
             n == row[h].attempts
             r == [x EXCEPT !.seen = n]
  <2>1. x \in Exec /\ x.pc = "loaded" /\ x.hook = h
    BY <1>1 DEF Exec, ExecPC, Hook
  <2>2. n \in 0..MaxAttempts /\ n < MaxAttempts /\ n <= tries[h]
    BY <1>1, <1>3 DEF DeliveryInv, DeliveryTypeOK, Row, AttemptsLeft, AttemptsWereMade
  <2>3. exec' = [exec EXCEPT ![e] = r]
    BY <1>1, <1>3 DEF Load, DeliveryInv, DeliveryTypeOK
  <2> HIDE DEF x, n
  <2>4. r \in Exec /\ r.pc = "loaded" /\ r.hook = h /\ r.seen = n
    BY <2>1, <2>2 DEF Exec
  <2> HIDE DEF r, h
  <2> QED
    BY <1>1, <1>2, <2>2, <2>3, <2>4, KeptStep, RestTyped
<1>4. CASE row[h].status # "pending"
  <2>1. exec' = [exec EXCEPT ![e] = IdleExec]
    BY <1>4 DEF Load, Return
  <2> QED
    BY <1>1, <1>2, <2>1, IdleIsExec, KeptStep, RestTyped
<1> QED
  BY <1>3, <1>4

LEMMA LookUpKeeps ==
    ASSUME DeliveryInv, NEW e \in Executions, LookUp(e)
    PROVE  DeliveryInv'
<1>1. PICK to \in {"posting", "unconfigured"} : ExecGoto(e, to)
  BY DEF LookUp
<1> DEFINE r == [exec[e] EXCEPT !.pc = to]
<1>2. /\ exec[e] \in Exec /\ Counted(e) /\ exec[e].pc = "loaded"
      /\ UNCHANGED <<row, due, timers, configured, queue, tries, received, mishaps>>
  BY DEF LookUp, DeliveryInv, DeliveryTypeOK, ExecAt
<1>3. r \in Exec /\ r.pc = to /\ r.hook = exec[e].hook /\ r.seen = exec[e].seen
  BY <1>2 DEF Exec, ExecPC
<1>4. exec' = [exec EXCEPT ![e] = r]
  BY <1>1, <1>2 DEF ExecGoto, DeliveryInv, DeliveryTypeOK
<1> HIDE DEF r
<1>5. r.hook \in Hooks /\ r.seen < MaxAttempts /\ r.seen <= tries[r.hook]
  BY <1>2, <1>3 DEF Counted, ExecAt, Hook
<1>6. received' \subseteq Hooks
  BY <1>2 DEF DeliveryInv, DeliveryTypeOK
<1> QED
  BY <1>1, <1>2, <1>3, <1>4, <1>5, <1>6, KeptStep, RestTyped

\* A delivery that goes wrong is one more than its execution has read.
LEMMA FailedKeeps ==
    ASSUME DeliveryInv, NEW e \in Executions, ~ExecAt(e, "idle"), Failed(e),
           UNCHANGED <<row, due, timers, configured, queue, received>>,
           mishaps' \in 0..MaxMishaps
    PROVE  DeliveryInv'
<1> DEFINE r == [exec[e] EXCEPT !.pc = "error"]
           h == exec[e].hook
           n == IF tries[h] < MaxAttempts THEN tries[h] + 1 ELSE tries[h]
<1>1. /\ exec[e] \in Exec /\ h \in Hooks /\ tries \in [Hooks -> 0..MaxAttempts]
      /\ exec[e].seen \in Nat /\ exec[e].seen < MaxAttempts /\ exec[e].seen <= tries[h]
  BY DEF DeliveryInv, DeliveryTypeOK, Counted, Hook, Exec
<1>2. r \in Exec /\ r.pc = "error" /\ r.hook = h /\ r.seen = exec[e].seen
  BY <1>1 DEF Exec, ExecPC
<1>3. exec' = [exec EXCEPT ![e] = r] /\ tries' = [tries EXCEPT ![h] = n]
  BY <1>1 DEF Failed, ExecGoto, Hook, DeliveryInv, DeliveryTypeOK
<1>4. n \in 0..MaxAttempts /\ exec[e].seen + 1 <= n /\ tries[h] <= n
  BY <1>1
<1> HIDE DEF r, n
<1>5. tries' \in [Hooks -> 0..MaxAttempts] /\ \A k \in Hooks : tries[k] <= tries'[k]
  BY <1>1, <1>3, <1>4
<1>6. r.seen <= tries'[r.hook] /\ r.seen + 1 <= tries'[r.hook]
  BY <1>1, <1>2, <1>3, <1>4
<1> HIDE DEF h
<1> QED
  BY <1>1, <1>2, <1>3, <1>5, <1>6, ExecStep DEF DeliveryInv, DeliveryTypeOK

LEMMA PostKeeps ==
    ASSUME DeliveryInv, NEW e \in Executions, Post(e)
    PROVE  DeliveryInv'
<1>1. CASE received' = received \cup {Hook(e)} /\ ExecGoto(e, "ok") /\ UNCHANGED tries
  <2> DEFINE r == [exec[e] EXCEPT !.pc = "ok"]
  <2>1. /\ exec[e] \in Exec /\ Counted(e) /\ exec[e].pc = "posting"
        /\ UNCHANGED <<row, due, timers, configured, queue, tries, mishaps>>
    BY <1>1 DEF Post, DeliveryInv, DeliveryTypeOK, ExecAt
  <2>2. r \in Exec /\ r.pc = "ok" /\ r.hook = exec[e].hook /\ r.seen = exec[e].seen
    BY <2>1 DEF Exec, ExecPC
  <2>3. exec' = [exec EXCEPT ![e] = r]
    BY <1>1 DEF ExecGoto, DeliveryInv, DeliveryTypeOK
  <2> HIDE DEF r
  <2>4. /\ r.hook \in Hooks /\ r.seen < MaxAttempts /\ r.seen <= tries[r.hook]
        /\ r.hook \in received' /\ received \subseteq received'
    BY <1>1, <2>1, <2>2 DEF Counted, ExecAt, Hook
  <2>5. received' \subseteq Hooks
    BY <1>1, <2>2, <2>4 DEF DeliveryInv, DeliveryTypeOK, Hook
  <2> QED
    BY <1>1, <2>1, <2>2, <2>3, <2>4, <2>5, KeptStep, RestTyped
<1>2. CASE Failed(e) /\ UNCHANGED received
  BY <1>2, FailedKeeps DEF Post, ExecAt, DeliveryInv, DeliveryTypeOK
<1> QED
  BY <1>1, <1>2 DEF Post

\* The updates at the end of a delivery
LEMMA UpdateKeeps ==
    ASSUME DeliveryInv, NEW e \in Executions,
           Unconfigured(e) \/ Succeed(e) \/ Retry(e) \/ GiveUp(e)
    PROVE  DeliveryInv'
<1> DEFINE h == Hook(e)
           n == exec[e].seen + 1
<1>1. /\ h \in Hooks /\ row[h] \in Row /\ exec[e].seen \in Nat /\ exec[e].seen < MaxAttempts
      /\ exec[e].pc \in {"unconfigured", "ok", "error"}
      /\ exec[e].pc = "error" => n <= tries[h]
      /\ exec[e].pc = "ok" => h \in received
  BY DEF Unconfigured, Succeed, Retry, GiveUp, DeliveryInv, DeliveryTypeOK, Counted, ExecAt, Exec
<1>2. /\ exec' = [exec EXCEPT ![e] = IdleExec]
      /\ due' \in [Hooks -> BOOLEAN] /\ timers' \in [Hooks -> Nat]
      /\ UNCHANGED <<configured, queue, tries, received, mishaps>>
  <2>1. CASE Unconfigured(e) \/ Succeed(e) \/ GiveUp(e)
    BY <2>1 DEF Unconfigured, Succeed, GiveUp, Finish, Return, DeliveryInv, DeliveryTypeOK
  <2>2. CASE Retry(e)
    <3>1. due' = [due EXCEPT ![h] = FALSE] /\ timers' = [timers EXCEPT ![h] = @ + 1]
      BY <2>2 DEF Retry
    <3> HIDE DEF h
    <3>2. due' \in [Hooks -> BOOLEAN] /\ timers' \in [Hooks -> Nat]
      BY <1>1, <3>1 DEF DeliveryInv, DeliveryTypeOK
    <3> QED
      BY <2>2, <3>2 DEF Retry, Return
  <2> QED
    BY <2>1, <2>2
<1>3. /\ exec' \in [Executions -> Exec]
      /\ \A i \in Executions : exec'[i] = exec[i] \/ exec'[i] = IdleExec
  BY <1>2, IdleIsExec DEF DeliveryInv, DeliveryTypeOK
<1>4. row[h].attempts <= tries[h]
  BY <1>1 DEF DeliveryInv, AttemptsWereMade
<1>5. n \in 0..MaxAttempts
  BY <1>1
<1>6. ASSUME NEW result \in {"failed", "completed"}, Finish(e, result),
             result = "completed" => h \in received
      PROVE  DeliveryInv'
  <2> DEFINE r == [row[h] EXCEPT !.status = result]
  <2>1. r \in Row /\ r.status = result /\ r.attempts = row[h].attempts
    BY <1>1 DEF Row
  <2>2. row' = [row EXCEPT ![h] = r]
    BY <1>6 DEF Finish
  <2> HIDE DEF r, h
  <2> QED
    BY <1>1, <1>2, <1>3, <1>4, <1>6, <2>1, <2>2, RowStep
<1>7. CASE Retry(e)
  <2> DEFINE r == [row[h] EXCEPT !.attempts = n]
  <2>1. row' = [row EXCEPT ![h] = r] /\ n < MaxAttempts /\ exec[e].pc = "error"
    BY <1>7 DEF Retry, ExecAt
  <2> HIDE DEF n
  <2>2. r \in Row /\ r.status = row[h].status /\ r.attempts = n
    BY <1>1, <1>5 DEF Row
  <2>3. r.status = "completed" => h \in received
    BY <1>1, <2>2 DEF DeliveryInv, CompletedWasReceived
  <2> HIDE DEF r, h
  <2> QED
    BY <1>1, <1>2, <1>3, <2>1, <2>2, <2>3, RowStep
<1>8. CASE GiveUp(e)
  <2> DEFINE r == [status |-> "failed", attempts |-> n]
  <2>1. row' = [row EXCEPT ![h] = r] /\ exec[e].pc = "error"
    BY <1>8 DEF GiveUp, ExecAt
  <2> HIDE DEF n
  <2>2. r \in Row /\ r.status = "failed" /\ r.attempts = n
    BY <1>5 DEF Row
  <2> HIDE DEF r, h
  <2> QED
    BY <1>1, <1>2, <1>3, <2>1, <2>2, RowStep
<1> QED
  BY <1>1, <1>6, <1>7, <1>8 DEF Unconfigured, Succeed, ExecAt

-----------------------------------------------------------------------------
\* What goes wrong

LEMMA FaultKeeps ==
    ASSUME DeliveryInv, \/ \E e \in Executions : DatabaseError(e)
                        \/ \E s \in Sweeps : SweepAborts(s)
                        \/ DeliveryCrash \/ Configure
    PROVE  DeliveryInv'
<1>1. mishaps' \in 0..MaxMishaps
  BY DEF DatabaseError, SweepAborts, DeliveryCrash, Configure, DeliveryFault, DeliveryInv, DeliveryTypeOK
<1>2. ASSUME NEW e \in Executions, DatabaseError(e) PROVE DeliveryInv'
  BY <1>1, <1>2, FailedKeeps DEF DatabaseError, ExecAt
<1>3. ASSUME NEW s \in Sweeps, SweepAborts(s) PROVE DeliveryInv'
  <2>1. s \in Executions /\ exec' = [exec EXCEPT ![s] = IdleExec]
    BY <1>3 DEF SweepAborts, Return, Executions
  <2>2. /\ exec' \in [Executions -> Exec]
        /\ \A i \in Executions : exec'[i] = exec[i] \/ exec'[i] = IdleExec
    BY <2>1, IdleIsExec DEF DeliveryInv, DeliveryTypeOK
  <2>3. queue' \in [Sweeps -> SUBSET Hooks] /\ UNCHANGED <<row, due, timers, configured, tries, received>>
    BY <1>3 DEF SweepAborts, DeliveryInv, DeliveryTypeOK
  <2> QED
    BY <1>1, <2>2, <2>3, OtherStep DEF DeliveryInv, DeliveryTypeOK
<1>4. CASE DeliveryCrash
  <2>1. exec' \in [Executions -> Exec] /\ \A i \in Executions : exec'[i] = IdleExec
    BY <1>4, IdleIsExec DEF DeliveryCrash
  <2>2. timers' \in [Hooks -> Nat] /\ queue' \in [Sweeps -> SUBSET Hooks]
    BY <1>4 DEF DeliveryCrash
  <2>3. UNCHANGED <<row, due, configured, tries, received>>
    BY <1>4 DEF DeliveryCrash
  <2> QED
    BY <1>1, <2>1, <2>2, <2>3, OtherStep DEF DeliveryInv, DeliveryTypeOK
<1>5. CASE Configure
  BY <1>1, <1>5, OtherStep DEF Configure, DeliveryInv, DeliveryTypeOK
<1> QED
  BY <1>2, <1>3, <1>4, <1>5

-----------------------------------------------------------------------------
LEMMA Initially == DeliveryInit => DeliveryInv
<1> SUFFICES ASSUME DeliveryInit PROVE DeliveryInv
  OBVIOUS
<1>1. DeliveryTypeOK
  BY IdleIsExec DEF DeliveryInit, DeliveryTypeOK, Row
<1>2. AttemptsLeft /\ AttemptsWereMade /\ CompletedWasReceived
  BY DEF DeliveryInit, AttemptsLeft, AttemptsWereMade, CompletedWasReceived
<1>3. \A e \in Executions : Counted(e)
  BY IdleIsExec DEF DeliveryInit, Counted, ExecAt
<1> QED
  BY <1>1, <1>2, <1>3 DEF DeliveryInv

LEMMA Stepwise == DeliveryInv /\ [DeliveryNext]_deliveryVars => DeliveryInv'
<1> SUFFICES ASSUME DeliveryInv, [DeliveryNext]_deliveryVars PROVE DeliveryInv'
  OBVIOUS
<1>1. CASE UNCHANGED deliveryVars
  BY <1>1, OtherStep DEF deliveryVars, DeliveryInv, DeliveryTypeOK
<1>2. ASSUME NEW e \in Executions, DeliverStep(e) PROVE DeliveryInv'
  BY <1>2, LoadKeeps, LookUpKeeps, PostKeeps, UpdateKeeps DEF DeliverStep
<1>3. ASSUME NEW e \in Executions, DatabaseError(e) PROVE DeliveryInv'
  BY <1>3, FaultKeeps
<1>4. ASSUME NEW s \in Sweeps, SweepStep(s) \/ SweepAborts(s) PROVE DeliveryInv'
  BY <1>4, StartKeeps, FaultKeeps
<1>5. ASSUME NEW e \in Callers, NEW h \in Hooks, Enqueue(e, h) \/ TimerFires(e, h) PROVE DeliveryInv'
  BY <1>5, StartKeeps
<1>6. ASSUME NEW h \in Hooks, Time(h) PROVE DeliveryInv'
  BY <1>6, StartKeeps
<1>7. CASE DeliveryCrash \/ Configure
  BY <1>7, FaultKeeps
<1> QED
  BY <1>1, <1>2, <1>3, <1>4, <1>5, <1>6, <1>7 DEF DeliveryNext

\* The counters of every row stay within maxRetries, however executions overlap.
THEOREM DeliveryTypeCorrect == DeliverySpec => []DeliveryTypeOK
<1>1. DeliveryInv => DeliveryTypeOK
  BY DEF DeliveryInv
<1> QED
  BY <1>1, Initially, Stepwise, PTL DEF DeliverySpec

\* deliverWebhook never counts an attempt that was not made: a webhook is given up
\* only after maxRetries deliveries of it went wrong, whoever else delivers it.
THEOREM AttemptsAreReal == DeliverySpec => []AttemptsWereMade
<1>1. DeliveryInv => AttemptsWereMade
  BY DEF DeliveryInv
<1> QED
  BY <1>1, Initially, Stepwise, PTL DEF DeliverySpec

\* A row says 'completed' only after a 2xx answer to one of its deliveries.
THEOREM CompletedIsReceived == DeliverySpec => []CompletedWasReceived
<1>1. DeliveryInv => CompletedWasReceived
  BY DEF DeliveryInv
<1> QED
  BY <1>1, Initially, Stepwise, PTL DEF DeliverySpec
=============================================================================
