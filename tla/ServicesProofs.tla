--------------------------- MODULE ServicesProofs ----------------------------
(***************************************************************************)
(* Proofs about the services of MCServices, for any number of requests,    *)
(* runs and payments: the multi-signature wallets (only what enough valid  *)
(* signatures were given for is sent; the counters are exact while         *)
(* requests take turns), the escrow routes (an escrow ends once), the      *)
(* merchant's client (a payment is kept until it is settled), the sandbox  *)
(* (what is paid back was paid; how many calls a payment buys), governance *)
(* (the votes that were cast decide), the limits of API keys, of the rate  *)
(* limiter and of stream quotas, the paying clients and the CDP wallets    *)
(* (what was spent is known).                                              *)
(***************************************************************************)
EXTENDS MCServices, SumTheorems, FiniteSetTheorems, TLAPS

-----------------------------------------------------------------------------
\* What SentWasSigned rests on: the rows that a request has read, and the one that it
\* is about to send, may lag behind what was found valid but do not run ahead of it.

Requests == [pc: PC, of: Transactions \cup {NoTransaction},
             signature: Signatures \cup {NoSignature}, row: Row, wallet: Wallet]

\* The types, but for the bounds of what is only counted
Typed ==
    /\ wallet \in Wallet
    /\ row \in [Transactions -> Row]
    /\ request \in [Handlers -> Requests]
    /\ verified \in [Transactions -> SUBSET Signatures]
    /\ sent \subseteq Transactions

Signed(t) == Cardinality(verified[t]) >= row[t].required

\* A row holds valid signatures only, and nothing is sent without a row.
RowVerified == \A t \in Transactions :
    /\ row[t].signatures \subseteq verified[t]
    /\ row[t].status = "NONE" => t \notin sent

\* What a request needs for the step that it is at: to sign, a copy of the row that
\* holds valid signatures only and says how many are required; to send, enough of
\* them; and to write the status of a row, that there is one.
Entitled(r) ==
    /\ r.pc \in {"sign", "execute", "send", "confirm", "finish", "countDone", "cancel"} =>
          r.of \in Transactions /\ row[r.of].status # "NONE"
    /\ r.pc = "sign" =>
          /\ r.signature \in Signatures
          /\ r.row.signatures \subseteq verified[r.of]
          /\ r.row.required = row[r.of].required
    /\ r.pc \in {"send", "confirm", "finish"} => Signed(r.of)

AllEntitled == \A h \in Handlers : Entitled(request[h])

IInv == Typed /\ RowVerified /\ AllEntitled /\ SentWasSigned

-----------------------------------------------------------------------------
\* A request that has nothing to do is a request.
LEMMA BlankRequest ==
    ASSUME WalletAssumption
    PROVE  /\ FirstWallet \in Wallet
           /\ NoRow \in Row
           /\ NoRequest \in Requests
<1>1. FirstThreshold \in Nat
  BY FS_CardinalityType, FS_Subset DEF WalletAssumption
<1>2. FirstWallet \in Wallet /\ NoRow \in Row
  BY <1>1 DEF WalletAssumption, FirstWallet, Wallet, NoRow, Row, Status
<1> QED
  BY <1>2 DEF NoRequest, Requests, PC

LEMMA Initially ==
    ASSUME WalletAssumption, Init
    PROVE  IInv
<1>1. Typed
  BY BlankRequest DEF Init, Typed
<1>2. RowVerified /\ AllEntitled /\ SentWasSigned
  BY DEF Init, RowVerified, AllEntitled, Entitled, SentWasSigned, NoRow, NoRequest
<1> QED
  BY <1>1, <1>2 DEF IInv

\* A step that changes neither rows nor signatures, and leaves its request at a step it
\* is entitled to; the wallet may change.
LEMMA RequestStep ==
    ASSUME IInv, UNCHANGED <<row, verified, sent>>, wallet' \in Wallet,
           NEW h \in Handlers, NEW r \in Requests, Entitled(r),
           request' = [request EXCEPT ![h] = r]
    PROVE  IInv'
<1>1. Typed'
  BY DEF IInv, Typed
<1>2. RowVerified' /\ SentWasSigned'
  BY DEF IInv, RowVerified, SentWasSigned
<1>3. AllEntitled'
  BY DEF IInv, Typed, AllEntitled, Entitled, Signed
<1> QED
  BY <1>1, <1>2, <1>3 DEF IInv

\* A request that is over asks for nothing.
LEMMA FinishStep ==
    ASSUME WalletAssumption, IInv, NEW h \in Handlers, Finish(h),
           UNCHANGED <<row, verified, sent>>, wallet' \in Wallet
    PROVE  IInv'
<1>1. NoRequest \in Requests /\ Entitled(NoRequest)
  BY BlankRequest DEF Entitled, NoRequest
<1> QED
  BY <1>1, RequestStep DEF Finish

\* One that goes on asks for what its next step needs.
LEMMA GotoStep ==
    ASSUME IInv, NEW h \in Handlers, NEW pc \in PC, Goto(h, pc),
           Entitled([request[h] EXCEPT !.pc = pc]),
           UNCHANGED <<wallet, row, verified, sent>>
    PROVE  IInv'
<1>1. [request[h] EXCEPT !.pc = pc] \in Requests
  BY DEF IInv, Typed, Requests
<1>2. request' = [request EXCEPT ![h] = [request[h] EXCEPT !.pc = pc]]
  BY DEF Goto
<1>3. wallet' \in Wallet
  BY DEF IInv, Typed
<1> QED
  BY <1>1, <1>2, <1>3, RequestStep

\* A request begins with the row or the wallet that it reads.
LEMMA BeginStep ==
    ASSUME WalletAssumption, IInv, NEW h \in Handlers,
           \/ BeginCreate(h) \/ BeginChange(h)
           \/ \E t \in Transactions : \/ BeginCancel(h, t)
                                     \/ \E g \in Signatures : BeginSign(h, t, g)
    PROVE  IInv'
<1>0. NoRequest \in Requests /\ wallet \in Wallet
  BY BlankRequest DEF IInv, Typed
<1>1. ASSUME NEW pc \in {"create", "addSigner", "removeSigner", "updateThreshold"},
             ReadWallet(h, pc)
      PROVE  IInv'
  <2> DEFINE w == [signers |-> wallet.signers, pending |-> 0, threshold |-> wallet.threshold,
                   total |-> 0]
             r0 == [NoRequest EXCEPT !.pc = pc]
             r == [NoRequest EXCEPT !.pc = pc, !.wallet = w]
  <2>a. w \in Wallet
    BY <1>0 DEF Wallet
  <2>b. r0 \in Requests /\ r0.pc = pc
    BY <1>0 DEF Requests, PC
  <2> HIDE DEF w
  <2>c. r = [r0 EXCEPT !.wallet = w]
    BY <1>0 DEF Requests
  <2> HIDE DEF r0
  <2>1. r \in Requests
    BY <2>a, <2>b, <2>c DEF Requests
  <2>2. r.pc = pc
    BY <2>b, <2>c DEF Requests
  <2> HIDE DEF r
  <2>3. Entitled(r)
    BY <2>2 DEF Entitled
  <2>4. request' = [request EXCEPT ![h] = r] /\ UNCHANGED <<wallet, row, verified, sent>>
    BY <1>1 DEF r, w, ReadWallet, Begin
  <2> QED
    BY <2>1, <2>3, <2>4, <1>0, RequestStep
<1>2. ASSUME NEW t \in Transactions, BeginCancel(h, t)
      PROVE  IInv'
  <2> DEFINE r == [NoRequest EXCEPT !.pc = "cancel", !.of = t]
  <2>1. r \in Requests /\ Entitled(r)
    BY <1>0, <1>2 DEF Requests, Entitled, PC, BeginCancel
  <2>2. request' = [request EXCEPT ![h] = r] /\ UNCHANGED <<wallet, row, verified, sent>>
    BY <1>2 DEF BeginCancel, Begin
  <2> QED
    BY <2>1, <2>2, <1>0, RequestStep
<1>3. ASSUME NEW t \in Transactions, NEW g \in Signatures, BeginSign(h, t, g)
      PROVE  IInv'
  <2> DEFINE r == [NoRequest EXCEPT !.pc = "sign", !.of = t, !.signature = g, !.row = row[t]]
  <2>1. r \in Requests /\ Entitled(r)
    BY <1>0, <1>3 DEF IInv, Typed, RowVerified, Requests, Entitled, PC, BeginSign
  <2>2. request' = [request EXCEPT ![h] = r] /\ UNCHANGED <<wallet, row, verified, sent>>
    BY <1>3 DEF BeginSign, Begin
  <2> QED
    BY <2>1, <2>2, <1>0, RequestStep
<1> QED
  BY <1>1, <1>2, <1>3 DEF BeginCreate, BeginChange

\* The counters and the signers: the rows do not change.
LEMMA WalletStep ==
    ASSUME WalletAssumption, IInv, NEW h \in Handlers,
           CountNew(h) \/ CountDone(h) \/ Uncount(h) \/ Change(h) \/ Refuse(h) \/ Throw(h)
    PROVE  IInv'
<1>1. wallet \in Wallet /\ request[h] \in Requests /\ Entitled(request[h])
  BY DEF IInv, Typed, AllEntitled
<1>2. CASE CountNew(h) \/ CountDone(h) \/ Uncount(h)
  <2>1. PICK n \in Int, m \in {0, 1} : Count(n, m)
    BY <1>2 DEF CountNew, CountDone, Uncount
  <2>2. wallet' \in Wallet
    <3> DEFINE w == [wallet EXCEPT !.pending = @ + n]
    <3>1. w \in Wallet
      BY <1>1 DEF Wallet
    <3>2. wallet' = [w EXCEPT !.total = w.total + m]
      BY <1>1, <2>1 DEF Count, Wallet
    <3> HIDE DEF w
    <3> QED
      BY <3>1, <3>2 DEF Wallet
  <2>3. Finish(h) /\ UNCHANGED <<row, verified, sent>>
    BY <1>2, <2>1 DEF CountNew, CountDone, Uncount, Count
  <2> QED
    BY <2>2, <2>3, FinishStep
<1>3. CASE Change(h)
  <2>1. Cardinality(request[h].wallet.signers) \in Nat
    BY <1>1, FS_Subset, FS_CardinalityType DEF WalletAssumption, Requests, Wallet
  <2>2. wallet' \in Wallet
    BY <1>1, <1>3, <2>1 DEF Change, Requests, Wallet
  <2>3. Finish(h) /\ UNCHANGED <<row, verified, sent>>
    BY <1>3 DEF Change
  <2> QED
    BY <2>2, <2>3, FinishStep
<1>4. CASE Refuse(h)
  BY <1>1, <1>4, FinishStep DEF Refuse
<1>5. CASE Throw(h)
  <2>1. UNCHANGED <<wallet, row, verified, sent>>
    BY <1>5 DEF Throw
  <2>2. CASE request[h].pc \in {"finish", "countDone"}
    <3>1. Entitled([request[h] EXCEPT !.pc = "cancel"])
      BY <1>1, <2>2 DEF Requests, Entitled
    <3>2. Goto(h, "cancel")
      BY <1>5, <2>2 DEF Throw
    <3> QED
      BY <2>1, <3>1, <3>2, GotoStep DEF PC
  <2>3. CASE request[h].pc \notin {"finish", "countDone"}
    <3>1. Finish(h)
      BY <1>5, <2>3 DEF Throw
    <3> QED
      BY <1>1, <2>1, <3>1, FinishStep
  <2> QED
    BY <2>2, <2>3
<1> QED
  BY <1>2, <1>3, <1>4, <1>5

\* A transaction is created where there was none: nobody speaks of it yet.
LEMMA CreateStep ==
    ASSUME WalletAssumption, IInv, NEW h \in Handlers, Create(h)
    PROVE  IInv'
<1> DEFINE r == [NoRequest EXCEPT !.pc = "countNew", !.of = NoTransaction]
<1>1. PICK t \in Transactions :
        /\ row[t].status = "NONE"
        /\ row' = [row EXCEPT ![t] = [status |-> "PENDING", signatures |-> {},
                                      required |-> request[h].wallet.threshold]]
  BY DEF Create
<1>2. request' = [request EXCEPT ![h] = r] /\ UNCHANGED <<wallet, verified, sent>>
  BY DEF Create, Step
<1>3. r \in Requests /\ r.pc = "countNew"
  BY BlankRequest DEF Requests, PC
<1>4. Typed'
  BY <1>1, <1>2, <1>3 DEF IInv, Typed, Requests, Wallet, Row, Status
<1>5. RowVerified' /\ SentWasSigned'
  BY <1>1, <1>2 DEF IInv, Typed, RowVerified, SentWasSigned
<1>6. AllEntitled'
  BY <1>1, <1>2, <1>3 DEF IInv, Typed, AllEntitled, Entitled, Signed
<1> QED
  BY <1>4, <1>5, <1>6 DEF IInv

\* Fewer signatures than what was found valid are not more.
LEMMA MoreSigned ==
    ASSUME IsFiniteSet(Signatures), NEW A \in SUBSET Signatures, NEW B \in SUBSET A
    PROVE  /\ Cardinality(A) \in Nat /\ Cardinality(B) \in Nat
           /\ Cardinality(B) <= Cardinality(A)
<1>1. IsFiniteSet(A) /\ IsFiniteSet(B)
  BY FS_Subset
<1> QED
  BY <1>1, FS_Subset, FS_CardinalityType

\* The signatures that are written were found valid, now or before; if they are enough,
\* so is what was found valid.
LEMMA SignStep ==
    ASSUME WalletAssumption, IInv, NEW h \in Handlers, Sign(h)
    PROVE  IInv'
<1>1. /\ Of(h) \in Transactions /\ row[Of(h)].status # "NONE"
      /\ request[h].signature \in Signatures
      /\ request[h].row.signatures \subseteq verified[Of(h)]
      /\ request[h].row.required = row[Of(h)].required
  BY DEF IInv, AllEntitled, Entitled, Sign, At, Of
<1>2. PICK t \in Transactions, g \in Signatures, signatures \in SUBSET Signatures :
        /\ t = Of(h) /\ g = request[h].signature
        /\ signatures = request[h].row.signatures \cup {g}
  BY <1>1 DEF IInv, Typed
<1> DEFINE ready == Cardinality(signatures) >= row[t].required
<1>3. PICK new \in Row :
        /\ new.signatures = signatures /\ new.required = row[t].required
        /\ new.status = IF ready THEN "READY" ELSE "PARTIALLY_SIGNED"
        /\ row' = [row EXCEPT ![t] = new]
  <2> DEFINE new == [status |-> IF ready THEN "READY" ELSE "PARTIALLY_SIGNED",
                     signatures |-> signatures, required |-> row[t].required]
  <2>1. row[t] \in Row
    BY DEF IInv, Typed
  <2>2. new \in Row
    BY <2>1 DEF Row, Status
  <2>3. row' = [row EXCEPT ![t] = new]
    BY <1>1, <1>2 DEF Sign
  <2> QED
    BY <2>2, <2>3
<1>4. /\ verified' = [verified EXCEPT ![t] = @ \cup {g}]
      /\ UNCHANGED <<wallet, sent>>
  BY <1>2 DEF Sign
<1>5. PICK r \in Requests :
        /\ r.pc \in {"idle", "execute"} /\ (r.pc = "execute" => r.of = t)
        /\ request' = [request EXCEPT ![h] = r]
  <2>1. NoRequest \in Requests /\ NoRequest.pc = "idle"
    BY BlankRequest DEF NoRequest
  <2> DEFINE e == [NoRequest EXCEPT !.pc = "execute", !.of = t]
  <2>2. e \in Requests /\ e.pc = "execute" /\ e.of = t
    BY <2>1 DEF Requests, PC
  <2>3. request' = [request EXCEPT ![h] = e] \/ request' = [request EXCEPT ![h] = NoRequest]
    BY <1>2 DEF Sign, Step, Finish
  <2> QED
    BY <2>1, <2>2, <2>3
<1>6. Typed'
  BY <1>3, <1>4, <1>5 DEF IInv, Typed
<1>7. /\ row'[t] = new /\ verified'[t] = verified[t] \cup {g}
      /\ \A u \in Transactions \ {t} : row'[u] = row[u] /\ verified'[u] = verified[u]
  BY <1>3, <1>4 DEF IInv, Typed
<1>8. /\ signatures \subseteq verified'[t]
      /\ \A u \in Transactions : /\ verified[u] \subseteq verified'[u]
                                /\ verified'[u] \subseteq Signatures
                                /\ row'[u].required = row[u].required
                                /\ row[u].required \in Nat
  BY <1>1, <1>2, <1>3, <1>6, <1>7 DEF IInv, Typed, Row
<1>9. \A u \in Transactions : Signed(u) => Signed(u)'
  BY <1>8, MoreSigned DEF Signed, WalletAssumption
<1>10. ready => Signed(t)'
  <2>1. /\ Cardinality(signatures) \in Nat /\ Cardinality(verified'[t]) \in Nat
        /\ Cardinality(signatures) <= Cardinality(verified'[t])
    BY <1>8, MoreSigned DEF WalletAssumption
  <2> QED
    BY <1>8, <2>1 DEF Signed
<1>11. RowVerified'
  BY <1>3, <1>4, <1>7, <1>8 DEF IInv, RowVerified
<1>12. SentWasSigned'
  BY <1>1, <1>2, <1>3, <1>4, <1>7, <1>9, <1>10 DEF IInv, RowVerified, SentWasSigned, Signed
<1>13. AllEntitled'
  <2> SUFFICES ASSUME NEW i \in Handlers PROVE Entitled(request[i])'
    BY DEF AllEntitled
  <2>1. \A u \in Transactions : row[u].status # "NONE" => row'[u].status # "NONE"
    BY <1>3, <1>7
  <2>2. CASE i = h
    BY <1>2, <1>3, <1>5, <1>7, <2>2 DEF IInv, Typed, Entitled
  <2>3. CASE i # h
    BY <1>5, <1>8, <1>9, <2>1, <2>3 DEF IInv, Typed, AllEntitled, Entitled
  <2> QED
    BY <2>2, <2>3
<1> QED
  BY <1>6, <1>11, <1>12, <1>13 DEF IInv

\* executeTransaction sends what it has read as ready, or is over.
LEMMA ExecuteStep ==
    ASSUME WalletAssumption, IInv, NEW h \in Handlers, Execute(h)
    PROVE  IInv'
<1>1. UNCHANGED <<wallet, row, verified, sent>> /\ wallet' \in Wallet
  BY DEF Execute, IInv, Typed
<1>2. CASE row[Of(h)].status = "READY"
  <2>1. Entitled([request[h] EXCEPT !.pc = "send"])
    BY <1>2 DEF IInv, Typed, AllEntitled, Entitled, SentWasSigned, Signed, Execute, At, Of, Requests
  <2>2. Goto(h, "send")
    BY <1>2 DEF Execute
  <2> QED
    BY <1>1, <2>1, <2>2, GotoStep DEF PC
<1>3. CASE row[Of(h)].status # "READY"
  <2>1. Finish(h)
    BY <1>3 DEF Execute
  <2> QED
    BY <1>1, <2>1, FinishStep
<1> QED
  BY <1>2, <1>3

\* What is sent has been signed.
LEMMA SendStep ==
    ASSUME WalletAssumption, IInv, NEW h \in Handlers, Send(h) \/ Confirm(h)
    PROVE  IInv'
<1>1. /\ UNCHANGED <<wallet, row, verified>> /\ request[h] \in Requests
      /\ Of(h) \in Transactions /\ row[Of(h)].status # "NONE" /\ Signed(Of(h))
  BY DEF Send, Confirm, IInv, Typed, AllEntitled, Entitled, At, Of
<1>2. PICK pc \in {"confirm", "finish", "cancel"} :
        Goto(h, pc) /\ sent' \in {sent, sent \cup {Of(h)}}
  BY DEF Send, Confirm
<1> DEFINE r == [request[h] EXCEPT !.pc = pc]
<1>3. r \in Requests /\ r.pc = pc /\ r.of = Of(h) /\ request' = [request EXCEPT ![h] = r]
  BY <1>1, <1>2 DEF Requests, PC, Of, Goto
<1> HIDE DEF r
<1>4. Typed'
  BY <1>1, <1>2, <1>3 DEF IInv, Typed
<1>5. RowVerified' /\ SentWasSigned'
  BY <1>1, <1>2 DEF IInv, RowVerified, SentWasSigned, Signed
<1>6. AllEntitled'
  BY <1>1, <1>2, <1>3 DEF IInv, Typed, AllEntitled, Entitled, Signed
<1> QED
  BY <1>4, <1>5, <1>6 DEF IInv

\* The status that is written is that of a transaction which was signed, or of none
\* that will be sent.
LEMMA StatusStep ==
    ASSUME WalletAssumption, IInv, NEW h \in Handlers, SetExecuted(h) \/ SetCancelled(h)
    PROVE  IInv'
<1> DEFINE t == Of(h)
<1>1. /\ UNCHANGED <<wallet, verified, sent>> /\ request[h] \in Requests
      /\ t \in Transactions /\ row[t].status # "NONE"
      /\ SetExecuted(h) => Signed(t)
  BY DEF SetExecuted, SetCancelled, Write, IInv, Typed, AllEntitled, Entitled, At, Of
<1>2. PICK status \in {"EXECUTED", "CANCELLED"} :
        /\ row' = [row EXCEPT ![t].status = status]
        /\ status = "EXECUTED" => SetExecuted(h)
  BY DEF SetExecuted, SetCancelled, Write
<1>3. PICK pc \in {"countDone", "uncount"} : Goto(h, pc)
  BY DEF SetExecuted, SetCancelled
<1> DEFINE r == [request[h] EXCEPT !.pc = pc]
<1>4. r \in Requests /\ r.pc = pc /\ r.of = t /\ request' = [request EXCEPT ![h] = r]
  BY <1>1, <1>3 DEF Requests, PC, Of, Goto
<1> HIDE DEF r, t
<1>5. \A u \in Transactions :
        /\ row'[u].signatures = row[u].signatures /\ row'[u].required = row[u].required
        /\ row'[u].status = IF u = t THEN status ELSE row[u].status
  BY <1>1, <1>2 DEF IInv, Typed, Row
<1>6. Typed'
  BY <1>1, <1>2, <1>4 DEF IInv, Typed, Row, Status
<1>7. RowVerified' /\ SentWasSigned'
  BY <1>1, <1>2, <1>5 DEF IInv, RowVerified, SentWasSigned, Signed
<1>8. AllEntitled'
  BY <1>1, <1>2, <1>4, <1>5 DEF IInv, Typed, AllEntitled, Entitled, Signed
<1> QED
  BY <1>6, <1>7, <1>8 DEF IInv

-----------------------------------------------------------------------------
\* Every step keeps the invariant.
LEMMA Kept ==
    ASSUME WalletAssumption, IInv, [Next]_multiSigVars
    PROVE  IInv'
<1>1. CASE UNCHANGED multiSigVars
  BY <1>1 DEF multiSigVars, IInv, Typed, RowVerified, AllEntitled, Entitled, Signed,
              SentWasSigned
<1>2. CASE Next
  <2>1. PICK h \in Handlers :
          \/ BeginCreate(h) \/ Create(h) \/ CountNew(h)
          \/ \E t \in Transactions :
                BeginCancel(h, t) \/ \E g \in Signatures : BeginSign(h, t, g)
          \/ Sign(h) \/ Execute(h) \/ Send(h) \/ Confirm(h) \/ SetExecuted(h) \/ CountDone(h)
          \/ SetCancelled(h) \/ Uncount(h) \/ BeginChange(h) \/ Change(h) \/ Refuse(h)
          \/ Throw(h)
    BY <1>2 DEF Next
  <2> QED
    BY <2>1, BeginStep, WalletStep, CreateStep, SignStep, ExecuteStep, SendStep, StatusStep
<1> QED
  BY <1>1, <1>2

\* Whatever overlaps, whichever signatures are lost in it, and whatever the database
\* throws: a transaction that is ready, executed or sent has as many different valid
\* signatures as it required when createTransaction wrote its row.
THEOREM SentOnlyIfSigned == ASSUME WalletAssumption PROVE Spec => []SentWasSigned
<1>1. Init => IInv
  BY Initially
<1>2. IInv /\ [Next]_multiSigVars => IInv'
  BY Kept
<1>3. IInv => SentWasSigned
  BY DEF IInv
<1> QED
  BY <1>1, <1>2, <1>3, PTL DEF Spec

-----------------------------------------------------------------------------
\* WalletExact: while no requests overlap and the database does not fail, the one that
\* is under way acts on what it has read (Current), and the wallet's counters are what
\* they should be but for what this one has still to count (CountedBut).

Executed == {t \in Transactions : row[t].status = "EXECUTED"}

PendingOwed(pc) ==
    IF pc = "countNew" THEN 1 ELSE IF pc \in {"countDone", "uncount"} THEN -1 ELSE 0
TotalOwed(pc) == IF pc = "countDone" THEN 1 ELSE 0
CountedBut(pc) ==
    /\ wallet.pending + PendingOwed(pc) = Cardinality(Open)
    /\ wallet.total + TotalOwed(pc) = Cardinality(Executed)

Quorate ==
    /\ Cardinality(wallet.signers) >= 2
    /\ wallet.threshold \in 1..Cardinality(wallet.signers)

Current(r) ==
    /\ r.pc \in {"create", "addSigner", "removeSigner", "updateThreshold"} =>
          r.wallet.signers = wallet.signers /\ r.wallet.threshold = wallet.threshold
    /\ r.pc \in {"sign", "execute", "send", "confirm", "finish", "cancel"} => r.of \in Open

Alone(h) == \A g \in Handlers \ {h} : At(g, "idle")

InTurn ==
    /\ Quorate
    /\ \A h \in Handlers : ~At(h, "idle") =>
          Alone(h) /\ Current(request[h]) /\ CountedBut(request[h].pc)
    /\ (\A h \in Handlers : At(h, "idle")) => CountedBut("idle")

Overlaps == overlapped \/ dbFaults > 0

TurnsInv == IInv /\ overlapped \in BOOLEAN /\ dbFaults \in Nat /\ (Overlaps \/ InTurn)

\* What a step does that leaves its handler with r, alone
LEMMA TurnStep ==
    ASSUME Typed, NEW h \in Handlers, Alone(h), NEW r \in Requests,
           request' = [request EXCEPT ![h] = r],
           Quorate', Current(r)', CountedBut(r.pc)'
    PROVE  InTurn'
<1>1. request'[h] = r /\ \A g \in Handlers \ {h} : request'[g] = request[g]
  BY DEF Typed
<1>2. \A g \in Handlers : ~At(g, "idle")' =>
        Alone(g)' /\ Current(request[g])' /\ CountedBut(request[g].pc)'
  BY <1>1 DEF Alone, At, Current, CountedBut, Open, Executed
<1>3. (\A g \in Handlers : At(g, "idle"))' => CountedBut("idle")'
  BY <1>1 DEF At
<1> QED
  BY <1>2, <1>3 DEF InTurn

\* A step that touches neither rows nor wallet, and owes what its request did
LEMMA QuietStep ==
    ASSUME Typed, InTurn, UNCHANGED <<wallet, row>>, NEW h \in Handlers, Alone(h),
           NEW r \in Requests, request' = [request EXCEPT ![h] = r], Current(r),
           PendingOwed(r.pc) = PendingOwed(request[h].pc),
           TotalOwed(r.pc) = TotalOwed(request[h].pc)
    PROVE  InTurn'
<1>1. CountedBut(request[h].pc)
  <2>1. CASE At(h, "idle")
    BY <2>1 DEF InTurn, Alone, At
  <2>2. CASE ~At(h, "idle")
    BY <2>2 DEF InTurn
  <2> QED
    BY <2>1, <2>2
<1>2. Open' = Open /\ Executed' = Executed
  BY DEF Open, Executed
<1>3. Quorate' /\ Current(r)' /\ CountedBut(r.pc)'
  BY <1>1, <1>2 DEF InTurn, Quorate, Current, CountedBut
<1> QED
  BY <1>3, TurnStep

\* What a request has still to count when it begins and when it is over: nothing.
LEMMA OwesNothing ==
    ASSUME NEW pc, pc \notin {"countNew", "countDone", "uncount"}
    PROVE  PendingOwed(pc) = 0 /\ TotalOwed(pc) = 0
BY DEF PendingOwed, TotalOwed

\* A step that goes on where there is nothing owed before or after
LEMMA QuietGoto ==
    ASSUME TurnsInv, InTurn, UNCHANGED <<wallet, row>>, NEW h \in Handlers, Alone(h),
           NEW pc \in PC \ {"create", "addSigner", "removeSigner", "updateThreshold",
                            "countNew", "countDone", "uncount"},
           request[h].pc \notin {"countNew", "countDone", "uncount"},
           request[h].of \in Open, Goto(h, pc)
    PROVE  InTurn'
<1> DEFINE r == [request[h] EXCEPT !.pc = pc]
<1>1. r \in Requests /\ r.pc = pc /\ r.of = request[h].of /\ request' = [request EXCEPT ![h] = r]
  BY DEF TurnsInv, IInv, Typed, Requests, Goto
<1> HIDE DEF r
<1>2. Current(r)
  BY <1>1 DEF Current
<1> QED
  BY <1>1, <1>2, OwesNothing, QuietStep DEF TurnsInv, IInv

LEMMA QuietFinish ==
    ASSUME WalletAssumption, TurnsInv, InTurn, UNCHANGED <<wallet, row>>, NEW h \in Handlers,
           Alone(h), request[h].pc \notin {"countNew", "countDone", "uncount"}, Finish(h)
    PROVE  InTurn'
<1>1. NoRequest \in Requests /\ NoRequest.pc = "idle"
  BY BlankRequest DEF NoRequest
<1>2. PICK r \in Requests : r.pc = "idle" /\ request' = [request EXCEPT ![h] = r]
  BY <1>1 DEF Finish
<1>3. Current(r)
  BY <1>2 DEF Current
<1>4. PendingOwed(r.pc) = PendingOwed(request[h].pc) /\ TotalOwed(r.pc) = TotalOwed(request[h].pc)
  BY <1>2, OwesNothing
<1> QED
  BY <1>2, <1>3, <1>4, QuietStep DEF TurnsInv, IInv

-----------------------------------------------------------------------------
\* What the counters are to count: a transaction is opened, executed or cancelled once.
LEMMA Counts ==
    ASSUME WalletAssumption, Typed
    PROVE  /\ IsFiniteSet(Open) /\ Cardinality(Open) \in Nat
           /\ IsFiniteSet(Executed) /\ Cardinality(Executed) \in Nat
           /\ wallet.pending \in Int /\ wallet.total \in Nat
<1>1. Open \subseteq Transactions /\ Executed \subseteq Transactions
  BY DEF Open, Executed
<1> QED
  BY <1>1, FS_Subset, FS_CardinalityType DEF WalletAssumption, Typed, Wallet

\* A request begins when no other is under way.
LEMMA BeginTurn ==
    ASSUME WalletAssumption, TurnsInv, InTurn, NEW h \in Handlers, ~overlapped',
           \/ BeginCreate(h) \/ BeginChange(h)
           \/ \E t \in Transactions : \/ BeginCancel(h, t)
                                     \/ \E g \in Signatures : BeginSign(h, t, g)
    PROVE  InTurn'
<1>0. NoRequest \in Requests /\ wallet \in Wallet
  BY BlankRequest DEF TurnsInv, IInv, Typed
<1>1. ASSUME NEW r \in Requests, Begin(h, r), Current(r),
             r.pc \notin {"countNew", "countDone", "uncount"}
      PROVE  InTurn'
  <2>1. At(h, "idle") /\ Alone(h) /\ UNCHANGED <<wallet, row>>
        /\ request' = [request EXCEPT ![h] = r]
    BY <1>1 DEF Begin, Alone
  <2>2. request[h].pc \notin {"countNew", "countDone", "uncount"}
    BY <2>1 DEF At
  <2>3. PendingOwed(r.pc) = PendingOwed(request[h].pc) /\ TotalOwed(r.pc) = TotalOwed(request[h].pc)
    BY <1>1, <2>2, OwesNothing
  <2> QED
    BY <1>1, <2>1, <2>3, QuietStep DEF TurnsInv, IInv
<1>2. ASSUME NEW pc \in {"create", "addSigner", "removeSigner", "updateThreshold"},
             ReadWallet(h, pc)
      PROVE  InTurn'
  <2> DEFINE w == [signers |-> wallet.signers, pending |-> 0, threshold |-> wallet.threshold,
                   total |-> 0]
             r0 == [NoRequest EXCEPT !.pc = pc]
             r == [NoRequest EXCEPT !.pc = pc, !.wallet = w]
  <2>1. w \in Wallet /\ w.signers = wallet.signers /\ w.threshold = wallet.threshold
    BY <1>0 DEF Wallet
  <2>2. r0 \in Requests /\ r0.pc = pc
    BY <1>0 DEF Requests, PC
  <2>3. Begin(h, r)
    BY <1>2 DEF ReadWallet
  <2> HIDE DEF w
  <2>4. r = [r0 EXCEPT !.wallet = w]
    BY <1>0 DEF Requests
  <2> HIDE DEF r0
  <2>5. r \in Requests /\ r.pc = pc /\ r.wallet = w
    BY <2>1, <2>2, <2>4 DEF Requests
  <2> HIDE DEF r
  <2>6. Current(r)
    BY <2>1, <2>5 DEF Current
  <2> QED
    BY <1>1, <2>3, <2>5, <2>6
<1>3. ASSUME NEW t \in Transactions, BeginCancel(h, t)
      PROVE  InTurn'
  <2> DEFINE r == [NoRequest EXCEPT !.pc = "cancel", !.of = t]
  <2>1. r \in Requests /\ r.pc = "cancel" /\ r.of = t
    BY <1>0 DEF Requests, PC
  <2>2. Begin(h, r) /\ t \in Open
    BY <1>3 DEF BeginCancel, Open
  <2> HIDE DEF r
  <2>3. Current(r)
    BY <2>1, <2>2 DEF Current
  <2> QED
    BY <1>1, <2>1, <2>2, <2>3
<1>4. ASSUME NEW t \in Transactions, NEW g \in Signatures, BeginSign(h, t, g)
      PROVE  InTurn'
  <2> DEFINE r == [NoRequest EXCEPT !.pc = "sign", !.of = t, !.signature = g, !.row = row[t]]
  <2>1. r \in Requests /\ r.pc = "sign" /\ r.of = t
    BY <1>0 DEF TurnsInv, IInv, Typed, Requests, PC
  <2>2. Begin(h, r) /\ t \in Open
    BY <1>4 DEF BeginSign, Open
  <2> HIDE DEF r
  <2>3. Current(r)
    BY <2>1, <2>2 DEF Current
  <2> QED
    BY <1>1, <2>1, <2>2, <2>3
<1> QED
  BY <1>2, <1>3, <1>4 DEF BeginCreate, BeginChange

\* The steps between the reading of a row and the writing of its status
LEMMA OnTheWayTurn ==
    ASSUME WalletAssumption, TurnsInv, InTurn, NEW h \in Handlers,
           Execute(h) \/ Send(h) \/ Confirm(h) \/ Refuse(h)
    PROVE  InTurn'
<1>1. /\ UNCHANGED <<wallet, row>>
      /\ request[h].pc \in {"execute", "send", "confirm", "create", "sign", "addSigner",
                            "removeSigner"}
  BY DEF Execute, Send, Confirm, Refuse, At
<1>2. Alone(h) /\ Current(request[h])
  BY <1>1 DEF InTurn, At
<1>3. \/ Finish(h)
      \/ /\ request[h].of \in Open
         /\ \E pc \in {"send", "confirm", "cancel", "finish"} : Goto(h, pc)
  BY <1>2 DEF Execute, Send, Confirm, Refuse, Current, At
<1> QED
  BY <1>1, <1>2, <1>3, QuietFinish, QuietGoto DEF PC

\* What was owed is counted.
LEMMA CountTurn ==
    ASSUME WalletAssumption, TurnsInv, InTurn, NEW h \in Handlers,
           CountNew(h) \/ CountDone(h) \/ Uncount(h)
    PROVE  InTurn'
<1>1. PICK n \in Int, m \in {0, 1} :
        /\ Count(n, m) /\ Finish(h)
        /\ n = PendingOwed(request[h].pc) /\ m = TotalOwed(request[h].pc)
        /\ request[h].pc # "idle"
  BY DEF CountNew, CountDone, Uncount, PendingOwed, TotalOwed, At
<1>2. Alone(h) /\ CountedBut(request[h].pc) /\ Quorate
  BY <1>1 DEF InTurn, At
<1>3. wallet \in Wallet /\ UNCHANGED row
  BY <1>1 DEF TurnsInv, IInv, Typed, Count
<1>4. wallet'.pending = wallet.pending + n /\ wallet'.total = wallet.total + m
      /\ wallet'.signers = wallet.signers /\ wallet'.threshold = wallet.threshold
  BY <1>1, <1>3 DEF Count, Wallet
<1>5. PICK r \in Requests : r.pc = "idle" /\ request' = [request EXCEPT ![h] = r]
  <2>1. NoRequest \in Requests /\ NoRequest.pc = "idle"
    BY BlankRequest DEF NoRequest
  <2> QED
    BY <1>1, <2>1 DEF Finish
<1>6. Quorate' /\ Current(r)'
  BY <1>2, <1>4, <1>5 DEF Quorate, Current
<1>7. Open' = Open /\ Executed' = Executed
  BY <1>3 DEF Open, Executed
<1>8. PendingOwed(r.pc) = 0 /\ TotalOwed(r.pc) = 0
  BY <1>5, OwesNothing
<1>9. CountedBut(r.pc)'
  <2>1. wallet'.pending = Cardinality(Open) /\ wallet'.total = Cardinality(Executed)
    BY <1>1, <1>2, <1>4 DEF CountedBut
  <2>2. wallet'.pending \in Int /\ wallet'.total \in Nat
    BY <2>1, Counts DEF TurnsInv, IInv
  <2> QED
    BY <1>7, <1>8, <2>1, <2>2 DEF CountedBut
<1> QED
  BY <1>2, <1>5, <1>6, <1>9, TurnStep DEF TurnsInv, IInv

\* The signers and the threshold are changed from what they are.
LEMMA ChangeTurn ==
    ASSUME WalletAssumption, TurnsInv, InTurn, NEW h \in Handlers, Change(h)
    PROVE  InTurn'
<1> DEFINE read == request[h].wallet
<1>1. request[h].pc \in {"addSigner", "removeSigner", "updateThreshold"} /\ Finish(h)
      /\ UNCHANGED row
  BY DEF Change, At
<1>2. /\ Alone(h) /\ CountedBut(request[h].pc) /\ Quorate
      /\ read.signers = wallet.signers /\ read.threshold = wallet.threshold
  BY <1>1 DEF InTurn, At, Current
<1>3. /\ wallet \in Wallet /\ IsFiniteSet(wallet.signers)
      /\ Cardinality(wallet.signers) \in Nat
  BY FS_Subset, FS_CardinalityType DEF TurnsInv, IInv, Typed, Wallet, WalletAssumption
<1>4. wallet'.pending = wallet.pending /\ wallet'.total = wallet.total
  BY <1>3 DEF Change, Wallet
<1>5. Quorate'
  <2>1. CASE At(h, "addSigner")
    <3>1. PICK k \in Keys \ wallet.signers :
            wallet' = [wallet EXCEPT !.signers = wallet.signers \cup {k}]
      BY <1>2, <2>1 DEF Change, At
    <3>2. Cardinality(wallet.signers \cup {k}) = Cardinality(wallet.signers) + 1
      BY <1>3, FS_AddElement
    <3>3. wallet'.signers = wallet.signers \cup {k} /\ wallet'.threshold = wallet.threshold
      BY <1>3, <3>1 DEF Wallet
    <3>4. wallet.threshold \in Int
      BY <1>3 DEF Wallet
    <3> QED
      BY <1>2, <1>3, <3>2, <3>3, <3>4 DEF Quorate
  <2>2. CASE At(h, "removeSigner")
    <3>1. PICK k \in wallet.signers :
            /\ wallet' = [wallet EXCEPT !.signers = wallet.signers \ {k}]
            /\ Cardinality(wallet.signers) > 2
            /\ wallet.threshold < Cardinality(wallet.signers)
      BY <1>2, <2>2 DEF Change, At
    <3>2. Cardinality(wallet.signers \ {k}) = Cardinality(wallet.signers) - 1
      BY <1>3, FS_RemoveElement
    <3>3. wallet'.signers = wallet.signers \ {k} /\ wallet'.threshold = wallet.threshold
      BY <1>3, <3>1 DEF Wallet
    <3>4. wallet.threshold \in Int
      BY <1>3 DEF Wallet
    <3> QED
      BY <1>2, <1>3, <3>1, <3>2, <3>3, <3>4 DEF Quorate
  <2>3. CASE At(h, "updateThreshold")
    <3>1. PICK n \in 1..Cardinality(wallet.signers) :
            wallet' = [wallet EXCEPT !.threshold = n]
      BY <1>2, <2>3 DEF Change, At
    <3>2. wallet'.signers = wallet.signers /\ wallet'.threshold = n
      BY <1>3, <3>1 DEF Wallet
    <3> QED
      BY <1>2, <3>2 DEF Quorate
  <2> QED
    BY <1>1, <2>1, <2>2, <2>3 DEF At
<1>6. PICK r \in Requests : r.pc = "idle" /\ request' = [request EXCEPT ![h] = r]
  <2>1. NoRequest \in Requests /\ NoRequest.pc = "idle"
    BY BlankRequest DEF NoRequest
  <2> QED
    BY <1>1, <2>1 DEF Finish
<1>7. Current(r)'
  BY <1>6 DEF Current
<1>8. PendingOwed(r.pc) = PendingOwed(request[h].pc) /\ TotalOwed(r.pc) = TotalOwed(request[h].pc)
  BY <1>1, <1>6, OwesNothing
<1>9. CountedBut(r.pc)'
  BY <1>1, <1>2, <1>4, <1>8 DEF CountedBut, Open, Executed
<1> QED
  BY <1>2, <1>5, <1>6, <1>7, <1>9, TurnStep DEF TurnsInv, IInv

\* A step that changes rows and leaves the wallet: what its request owes has grown by
\* what there is more to count.
LEMMA RowTurn ==
    ASSUME WalletAssumption, TurnsInv, InTurn, UNCHANGED wallet,
           NEW h \in Handlers, ~At(h, "idle"),
           NEW r \in Requests, request' = [request EXCEPT ![h] = r], Current(r)',
           Cardinality(Open)' = Cardinality(Open) + PendingOwed(r.pc) - PendingOwed(request[h].pc),
           Cardinality(Executed)' =
              Cardinality(Executed) + TotalOwed(r.pc) - TotalOwed(request[h].pc)
    PROVE  InTurn'
<1>1. Alone(h) /\ CountedBut(request[h].pc) /\ Quorate
  BY DEF InTurn
<1>2. wallet.pending \in Int /\ wallet.total \in Int
  BY DEF TurnsInv, IInv, Typed, Wallet
<1>3. \A pc : PendingOwed(pc) \in Int /\ TotalOwed(pc) \in Int
  BY DEF PendingOwed, TotalOwed
<1>4. CountedBut(r.pc)'
  BY <1>1, <1>2, <1>3 DEF CountedBut
<1>5. Quorate'
  BY <1>1 DEF Quorate
<1> QED
  BY <1>1, <1>4, <1>5, TurnStep DEF TurnsInv, IInv

\* A transaction is opened that has still to be counted.
LEMMA CreateTurn ==
    ASSUME WalletAssumption, TurnsInv, InTurn, NEW h \in Handlers, Create(h)
    PROVE  InTurn'
<1>1. PICK t \in Transactions :
        /\ row[t].status = "NONE"
        /\ row' = [row EXCEPT ![t] = [status |-> "PENDING", signatures |-> {},
                                      required |-> request[h].wallet.threshold]]
  BY DEF Create
<1>2. request[h].pc = "create" /\ UNCHANGED wallet
  BY DEF Create, At
<1>3. PICK r \in Requests : r.pc = "countNew" /\ request' = [request EXCEPT ![h] = r]
  <2> DEFINE r == [NoRequest EXCEPT !.pc = "countNew", !.of = NoTransaction]
  <2>1. r \in Requests /\ r.pc = "countNew"
    BY BlankRequest DEF Requests, PC
  <2>2. request' = [request EXCEPT ![h] = r]
    BY DEF Create, Step
  <2> QED
    BY <2>1, <2>2
<1>4. row'[t].status = "PENDING" /\ \A u \in Transactions \ {t} : row'[u] = row[u]
  BY <1>1 DEF TurnsInv, IInv, Typed
<1>5. Open' = Open \cup {t} /\ t \notin Open /\ Executed' = Executed
  BY <1>1, <1>4 DEF Open, Executed
<1>6. Cardinality(Open)' = Cardinality(Open) + 1 /\ Cardinality(Executed)' = Cardinality(Executed)
  BY <1>5, Counts, FS_AddElement DEF TurnsInv, IInv
<1>7. /\ PendingOwed(r.pc) = 1 /\ TotalOwed(r.pc) = 0
      /\ PendingOwed(request[h].pc) = 0 /\ TotalOwed(request[h].pc) = 0
  BY <1>2, <1>3 DEF PendingOwed, TotalOwed
<1>8. Current(r)'
  BY <1>3 DEF Current
<1>9. Cardinality(Open) \in Nat /\ Cardinality(Executed) \in Nat
  BY Counts DEF TurnsInv, IInv
<1>10. /\ Cardinality(Open)' = Cardinality(Open) + PendingOwed(r.pc) - PendingOwed(request[h].pc)
       /\ Cardinality(Executed)' =
            Cardinality(Executed) + TotalOwed(r.pc) - TotalOwed(request[h].pc)
  BY <1>6, <1>7, <1>9
<1>11. ~At(h, "idle")
  BY <1>2 DEF At
<1> QED
  BY <1>2, <1>3, <1>8, <1>10, <1>11, RowTurn

\* What is signed stays open.
LEMMA SignTurn ==
    ASSUME WalletAssumption, TurnsInv, InTurn, NEW h \in Handlers, Sign(h)
    PROVE  InTurn'
<1> DEFINE t == Of(h)
<1>1. request[h].pc = "sign" /\ UNCHANGED wallet
  BY DEF Sign, At
<1>2. t \in Open
  BY <1>1 DEF InTurn, At, Current, Of
<1>3. PICK status \in {"READY", "PARTIALLY_SIGNED"} : \E all, n :
        row' = [row EXCEPT ![t] = [status |-> status, signatures |-> all, required |-> n]]
  BY DEF Sign
<1>4. row'[t].status = status /\ \A u \in Transactions \ {t} : row'[u] = row[u]
  BY <1>2, <1>3 DEF TurnsInv, IInv, Typed, Open
<1>5. Open' = Open /\ Executed' = Executed
  BY <1>2, <1>3, <1>4 DEF Open, Executed
<1>6. PICK r \in Requests :
        /\ r.pc \in {"idle", "execute"} /\ (r.pc = "execute" => r.of = t)
        /\ request' = [request EXCEPT ![h] = r]
  <2>1. NoRequest \in Requests /\ NoRequest.pc = "idle"
    BY BlankRequest DEF NoRequest
  <2> DEFINE e == [NoRequest EXCEPT !.pc = "execute", !.of = t]
  <2>2. e \in Requests /\ e.pc = "execute" /\ e.of = t
    BY <1>2, <2>1 DEF Requests, PC, Open
  <2>3. request' = [request EXCEPT ![h] = e] \/ request' = [request EXCEPT ![h] = NoRequest]
    BY DEF Sign, Step, Finish
  <2> QED
    BY <2>1, <2>2, <2>3
<1>7. Current(r)'
  BY <1>2, <1>5, <1>6 DEF Current
<1>8. /\ PendingOwed(r.pc) = 0 /\ TotalOwed(r.pc) = 0
      /\ PendingOwed(request[h].pc) = 0 /\ TotalOwed(request[h].pc) = 0
  BY <1>1, <1>6, OwesNothing
<1>9. Cardinality(Open) \in Nat /\ Cardinality(Executed) \in Nat
  BY Counts DEF TurnsInv, IInv
<1>10. /\ Cardinality(Open)' = Cardinality(Open) + PendingOwed(r.pc) - PendingOwed(request[h].pc)
       /\ Cardinality(Executed)' =
            Cardinality(Executed) + TotalOwed(r.pc) - TotalOwed(request[h].pc)
  BY <1>5, <1>8, <1>9
<1>11. ~At(h, "idle")
  BY <1>1 DEF At
<1> QED
  BY <1>1, <1>6, <1>7, <1>10, <1>11, RowTurn

\* An open transaction is executed or cancelled, which has still to be counted.
LEMMA StatusTurn ==
    ASSUME WalletAssumption, TurnsInv, InTurn, NEW h \in Handlers,
           SetExecuted(h) \/ SetCancelled(h)
    PROVE  InTurn'
<1> DEFINE t == Of(h)
<1>1. /\ request[h].pc \in {"finish", "cancel"} /\ UNCHANGED wallet
      /\ request[h] \in Requests
  BY DEF SetExecuted, SetCancelled, Write, At, TurnsInv, IInv, Typed
<1>2. t \in Open /\ t \in Transactions /\ t \notin Executed
  BY <1>1 DEF InTurn, At, Current, Of, Open, Executed
<1>3. PICK status \in {"EXECUTED", "CANCELLED"}, pc \in {"countDone", "uncount"} :
        /\ row' = [row EXCEPT ![t].status = status]
        /\ Goto(h, pc)
        /\ status = "EXECUTED" <=> pc = "countDone"
  BY DEF SetExecuted, SetCancelled, Write
<1>4. row'[t].status = status /\ \A u \in Transactions \ {t} : row'[u] = row[u]
  BY <1>2, <1>3 DEF TurnsInv, IInv, Typed, Row
<1>5. /\ Open' = Open \ {t}
      /\ Executed' = IF status = "EXECUTED" THEN Executed \cup {t} ELSE Executed
  BY <1>2, <1>4 DEF Open, Executed
<1>6. /\ IsFiniteSet(Open) /\ Cardinality(Open) \in Nat
      /\ IsFiniteSet(Executed) /\ Cardinality(Executed) \in Nat
  BY Counts DEF TurnsInv, IInv
<1>7. Cardinality(Open \ {t}) = Cardinality(Open) - 1
  BY <1>2, <1>6, FS_RemoveElement
<1>8. Cardinality(Executed \cup {t}) = Cardinality(Executed) + 1
  BY <1>2, <1>6, FS_AddElement
<1>9. PICK r \in Requests : r.pc = pc /\ request' = [request EXCEPT ![h] = r]
  <2> DEFINE r == [request[h] EXCEPT !.pc = pc]
  <2>1. r \in Requests /\ r.pc = pc /\ request' = [request EXCEPT ![h] = r]
    BY <1>1, <1>3 DEF Requests, PC, Goto
  <2> QED
    BY <2>1
<1>10. /\ PendingOwed(r.pc) = -1
       /\ TotalOwed(r.pc) = IF status = "EXECUTED" THEN 1 ELSE 0
  BY <1>3, <1>9 DEF PendingOwed, TotalOwed
<1>11. PendingOwed(request[h].pc) = 0 /\ TotalOwed(request[h].pc) = 0
  BY <1>1, OwesNothing
<1>12. Current(r)'
  BY <1>3, <1>9 DEF Current
<1>13. /\ Cardinality(Open)' = Cardinality(Open) + PendingOwed(r.pc) - PendingOwed(request[h].pc)
       /\ Cardinality(Executed)' =
            Cardinality(Executed) + TotalOwed(r.pc) - TotalOwed(request[h].pc)
  BY <1>5, <1>6, <1>7, <1>8, <1>10, <1>11
<1>14. ~At(h, "idle")
  BY <1>1 DEF At
<1> QED
  BY <1>1, <1>9, <1>12, <1>13, <1>14, RowTurn

-----------------------------------------------------------------------------
\* Every step keeps the invariant of the requests that take turns.
LEMMA TurnsKept ==
    ASSUME WalletAssumption, TurnsInv, IInv', [Next]_multiSigVars
    PROVE  TurnsInv'
<1>1. CASE UNCHANGED multiSigVars
  BY <1>1 DEF multiSigVars, TurnsInv, Overlaps, InTurn, Quorate, Alone, At, Current, CountedBut,
              Open, Executed
<1>2. CASE Next
  <2>1. PICK h \in Handlers :
          \/ BeginCreate(h) \/ Create(h) \/ CountNew(h)
          \/ \E t \in Transactions :
                BeginCancel(h, t) \/ \E g \in Signatures : BeginSign(h, t, g)
          \/ Sign(h) \/ Execute(h) \/ Send(h) \/ Confirm(h) \/ SetExecuted(h) \/ CountDone(h)
          \/ SetCancelled(h) \/ Uncount(h) \/ BeginChange(h) \/ Change(h) \/ Refuse(h)
          \/ Throw(h)
    BY <1>2 DEF Next
  <2> DEFINE Begins == \/ BeginCreate(h) \/ BeginChange(h)
                       \/ \E t \in Transactions : \/ BeginCancel(h, t)
                                                 \/ \E g \in Signatures : BeginSign(h, t, g)
  <2>2. CASE Begins
    <3>1. PICK r : Begin(h, r)
      BY <2>2 DEF BeginCreate, BeginChange, ReadWallet, BeginCancel, BeginSign
    <3>2. overlapped' \in BOOLEAN /\ (~overlapped' => ~overlapped) /\ dbFaults' = dbFaults
      BY <3>1 DEF Begin, TurnsInv
    <3>3. InTurn /\ ~overlapped' => InTurn'
      BY <2>2, BeginTurn
    <3> QED
      BY <3>2, <3>3 DEF TurnsInv, Overlaps
  <2>3. CASE Throw(h)
    BY <2>3 DEF Throw, TurnsInv, Overlaps
  <2>4. CASE ~Begins /\ ~Throw(h)
    <3>1. UNCHANGED <<overlapped, dbFaults>>
      BY <2>1, <2>4 DEF Create, CountNew, Sign, Execute, Send, Confirm, SetExecuted, CountDone,
                        SetCancelled, Uncount, Change, Refuse, Count, Write
    <3>2. InTurn => InTurn'
      BY <2>1, <2>4, CreateTurn, SignTurn, StatusTurn, CountTurn, ChangeTurn, OnTheWayTurn
    <3> QED
      BY <3>1, <3>2 DEF TurnsInv, Overlaps
  <2> QED
    BY <2>2, <2>3, <2>4
<1> QED
  BY <1>1, <1>2

\* For any number of requests that take turns, transactions, signers and signatures,
\* while the database does not fail: the wallet's counters are those of its open and
\* its executed transactions whenever no request is under way, and it has two signers
\* and a threshold that they can reach.
THEOREM WalletsAreExact == ASSUME WalletAssumption PROVE Spec => []WalletExact
<1>1. Init => TurnsInv
  <2> SUFFICES ASSUME Init PROVE TurnsInv
    OBVIOUS
  <2>1. IInv
    BY Initially
  <2>2. Open = {} /\ Executed = {} /\ wallet = FirstWallet
    BY DEF Init, Open, Executed, NoRow
  <2>3. Quorate /\ CountedBut("idle")
    BY <2>2, FS_EmptySet DEF WalletAssumption, FirstWallet, Quorate, CountedBut, PendingOwed,
          TotalOwed
  <2>4. \A h \in Handlers : At(h, "idle")
    BY DEF Init, NoRequest, At
  <2> QED
    BY <2>1, <2>3, <2>4 DEF TurnsInv, InTurn, Init
<1>2. Init => IInv
  BY Initially
<1>3. IInv /\ [Next]_multiSigVars => IInv'
  BY Kept
<1>4. TurnsInv /\ IInv' /\ [Next]_multiSigVars => TurnsInv'
  BY TurnsKept
<1>5. TurnsInv => WalletExact
  <2> SUFFICES ASSUME TurnsInv, ~Overlaps PROVE WalletExact
    BY DEF Overlaps, WalletExact
  <2>1. InTurn
    BY DEF TurnsInv
  <2>2. PendingOwed("idle") = 0 /\ TotalOwed("idle") = 0
    BY OwesNothing
  <2>3. wallet.pending \in Int /\ wallet.total \in Nat
    BY Counts DEF TurnsInv, IInv
  <2> QED
    BY <2>1, <2>2, <2>3 DEF InTurn, Quorate, CountedBut, Executed, WalletExact
<1> QED
  BY <1>1, <1>2, <1>3, <1>4, <1>5, PTL DEF Spec

\* The two together: what is sent was signed, and while requests take turns the wallet's row
\* says what became of its transactions.
THEOREM WalletsAreSound == ASSUME WalletAssumption PROVE Spec => []WalletSound
BY SentOnlyIfSigned, WalletsAreExact, PTL DEF WalletSound

-----------------------------------------------------------------------------
\* The other services. Each has an invariant of its own; a behaviour is that of one of
\* them, so it is enough that the service's steps keep it.

\* The merchant's client: what is handled while a request is under way is crowded, and
\* what the facilitator's answer will drop was settled with it or is crowded.
MerchantInv ==
    /\ Merchant!Requesting => Merchant!Handling \subseteq crowded
    /\ Merchant!Handling \subseteq pending \cup crowded
    /\ (\E w \in Merchant!Callers : worker[w] = "answered") =>
          recorded \subseteq settled \cup crowded
    /\ worker \in [Merchant!Callers ->
                     {"idle", "record", "kept", "request", "answered", "done"}]
    /\ \A c \in Hourly : worker[c] \notin {"record", "kept"}
    /\ Merchant!KeptUntilSettled

LEMMA MerchantKept ==
    ASSUME Merchant!MerchantAssumption, MerchantInv, [Merchant!Next]_merchantVars
    PROVE  MerchantInv'
<1>1. CASE UNCHANGED merchantVars
  BY <1>1 DEF merchantVars, MerchantInv, Merchant!Requesting, Merchant!Handling,
              Merchant!KeptUntilSettled
<1>2. CASE Merchant!ADayLater \/ Merchant!ScheduledSettlement
  BY <1>2 DEF Merchant!ADayLater, Merchant!ScheduledSettlement, MerchantInv, Merchant!Requesting,
              Merchant!Handling, Merchant!KeptUntilSettled
<1> USE DEF Merchant!At, Merchant!Goto, Merchant!Callers
<1>3. ASSUME NEW p \in Items, Merchant!Keep(p) \/ Merchant!Record(p) PROVE MerchantInv'
  BY <1>3 DEF Merchant!MerchantAssumption, Merchant!Keep, Merchant!Record, MerchantInv,
              Merchant!Requesting, Merchant!Handling, Merchant!KeptUntilSettled
<1>4. ASSUME NEW w \in Merchant!Callers, w \in Items => worker[w] = "kept", Merchant!Request(w),
             UNCHANGED <<pending, recorded, settled>>
      PROVE  MerchantInv'
  BY <1>4 DEF Merchant!Request, MerchantInv, Merchant!Requesting, Merchant!Handling,
              Merchant!KeptUntilSettled
<1>5. ASSUME NEW p \in Items, Merchant!Decide(p) PROVE MerchantInv'
  <2>1. CASE Merchant!Request(p)
    BY <1>4, <1>5, <2>1 DEF Merchant!Decide
  <2>2. CASE ~Merchant!Request(p)
    BY <1>5, <2>2 DEF Merchant!Decide, MerchantInv, Merchant!Requesting, Merchant!Handling,
                      Merchant!KeptUntilSettled
  <2> QED
    BY <2>1, <2>2
<1>6. ASSUME NEW c \in Hourly, Merchant!Check(c) PROVE MerchantInv'
  BY <1>4, <1>6 DEF Merchant!Check, Merchant!MerchantAssumption
<1>7. ASSUME NEW w \in Merchant!Callers, Merchant!Settle(w) PROVE MerchantInv'
  BY <1>7 DEF Merchant!Settle, MerchantInv, Merchant!Requesting, Merchant!Handling,
              Merchant!KeptUntilSettled
<1>8. ASSUME NEW w \in Merchant!Callers, Merchant!Clear(w) PROVE MerchantInv'
  BY <1>8 DEF Merchant!Clear, Merchant!Return, MerchantInv, Merchant!Requesting, Merchant!Handling,
              Merchant!KeptUntilSettled
<1>9. ASSUME NEW w \in Merchant!Callers, Merchant!Refused(w) PROVE MerchantInv'
  BY <1>9 DEF Merchant!Refused, Merchant!Return, MerchantInv, Merchant!Requesting,
              Merchant!Handling, Merchant!KeptUntilSettled, Merchant!MerchantAssumption
<1> QED
  BY <1>1, <1>2, <1>3, <1>5, <1>6, <1>7, <1>8, <1>9 DEF Merchant!Next

\* A payment that was recorded is kept until it is settled, unless it was handled while
\* a settlement was requested: for any number of payments and checks, whatever fails.
THEOREM PaymentsAreKept == ServicesSpec => []KeptUntilSettled
<1> DEFINE Inv == part = "merchant" => MerchantInv
<1>1. ServicesInit => Inv
  BY DEF ServicesInit, Merchant!Init, MerchantInv, Merchant!Requesting, Merchant!Handling,
         Merchant!Callers, Merchant!KeptUntilSettled
<1>2. Inv /\ [ServicesNext]_servicesVars => Inv'
  <2>1. Merchant!MerchantAssumption
    BY ServicesAssumption
  <2>2. [ServicesNext]_servicesVars /\ part = "merchant" => [Merchant!Next]_merchantVars
    BY DEF ServicesNext, servicesVars
  <2>3. [ServicesNext]_servicesVars => part' = part
    BY DEF ServicesNext, servicesVars
  <2> QED
    BY <2>1, <2>2, <2>3, MerchantKept
<1>3. Inv => KeptUntilSettled
  BY DEF MerchantInv, KeptUntilSettled
<1> QED
  BY <1>1, <1>2, <1>3, PTL DEF ServicesSpec

-----------------------------------------------------------------------------
\* The facilitator's escrow records: while no requests overlap, the one that is about to
\* set a status, or to count an end, comes before any end is counted.
EscrowTypes ==
    /\ escrow \in {"none", "expired"} \cup Escrow!Set
    /\ route \in [Workers -> [pc: {"idle", "set", "count"}, to: {"none"} \cup Escrow!Set]]
    /\ stats \in [Escrow!Set -> Nat]
    /\ routeFaults \in Nat
    /\ overtaken \in BOOLEAN

NoEnd == stats["released"] = 0 /\ stats["refunded"] = 0
WasFunded == stats["funded"] + routeFaults >= 1

RouteInTurn(r) ==
    /\ route[r].pc # "idle" => /\ \A q \in Workers \ {r} : route[q].pc = "idle"
                               /\ route[r].to \in Escrow!Set
    /\ route[r].pc = "set" => NoEnd /\ (route[r].to = "released" => WasFunded)
    /\ route[r].pc = "count" =>
          /\ escrow \in {route[r].to, "expired"}
          /\ route[r].to \in Escrow!Ended => NoEnd
          /\ route[r].to = "released" => WasFunded

\* What a status says of the counters, but for the request that has still to count it
Counting(s) == \E r \in Workers : route[r].pc = "count" /\ route[r].to = s
RecordInTurn ==
    /\ escrow \in {"none", "pending", "funded"} => NoEnd
    /\ escrow \in {"funded"} \cup Escrow!Ended =>
          stats[escrow] + routeFaults >= 1 \/ Counting(escrow)
    /\ stats["released"] + stats["refunded"] <= 1
    /\ stats["released"] <= stats["funded"] + routeFaults
    /\ stats["released"] = 1 => escrow \in {"released", "expired"}
    /\ stats["refunded"] = 1 => escrow \in {"refunded", "expired"}

EscrowInTurn == RecordInTurn /\ \A r \in Workers : RouteInTurn(r)
EscrowInv == EscrowTypes /\ (overtaken \/ EscrowInTurn)

LEMMA EscrowTyped ==
    ASSUME EscrowTypes, [Escrow!Next]_escrowVars
    PROVE  EscrowTypes' /\ (overtaken => overtaken')
<1>1. CASE UNCHANGED escrowVars
  BY <1>1 DEF escrowVars, EscrowTypes
<1>2. CASE Escrow!Expire
  BY <1>2 DEF Escrow!Expire, EscrowTypes
<1>3. ASSUME NEW r \in Workers, NEW to \in Escrow!Set, Escrow!Get(r, to)
      PROVE  EscrowTypes' /\ (overtaken => overtaken')
  BY <1>3 DEF Escrow!Get, Escrow!Goto, EscrowTypes
<1>4. ASSUME NEW r \in Workers, Escrow!SetStatus(r)
      PROVE  EscrowTypes' /\ (overtaken => overtaken')
  <2>1. route[r].to \in {"none"} \cup Escrow!Set
    BY DEF EscrowTypes
  <2> QED
    BY <1>4, <2>1 DEF Escrow!SetStatus, Escrow!Goto, EscrowTypes
<1>5. ASSUME NEW r \in Workers, Escrow!Count(r)
      PROVE  EscrowTypes' /\ (overtaken => overtaken')
  <2>1. \A s \in Escrow!Set : stats[s] + 1 \in Nat
    BY DEF EscrowTypes
  <2>2. stats' \in [Escrow!Set -> Nat]
    BY <1>5, <2>1 DEF Escrow!Count, EscrowTypes
  <2> QED
    BY <1>5, <2>2 DEF Escrow!Count, Escrow!Goto, EscrowTypes
<1>6. ASSUME NEW r \in Workers, Escrow!Throw(r)
      PROVE  EscrowTypes' /\ (overtaken => overtaken')
  BY <1>6 DEF Escrow!Throw, Escrow!Goto, EscrowTypes
<1> QED
  BY <1>1, <1>2, <1>3, <1>4, <1>5, <1>6 DEF Escrow!Next

LEMMA EscrowTurn ==
    ASSUME EscrowInv, EscrowTypes', [Escrow!Next]_escrowVars, EscrowInTurn, ~overtaken'
    PROVE  EscrowInTurn'
<1>1. CASE UNCHANGED escrowVars
  BY <1>1 DEF escrowVars, EscrowInTurn, RecordInTurn, RouteInTurn, Counting, NoEnd, WasFunded
<1>2. CASE Escrow!Expire
  BY <1>2 DEF Escrow!Expire, EscrowInTurn, RecordInTurn, RouteInTurn, Counting, NoEnd, WasFunded,
              Escrow!Set, Escrow!Ended
<1> DEFINE Idle(r) == \A q \in Workers \ {r} : route[q].pc = "idle" /\ route'[q] = route[q]
<1>3. ASSUME NEW r \in Workers, NEW to \in Escrow!Set, Escrow!Get(r, to)
      PROVE  EscrowInTurn'
  <2>1. /\ route'[r] = [pc |-> "set", to |-> to]
        /\ Idle(r) /\ route[r].pc = "idle" /\ Escrow!StatusAllows(to)
        /\ UNCHANGED <<escrow, stats, routeFaults>>
    BY <1>3 DEF Escrow!Get, Escrow!Goto, EscrowInv, EscrowTypes
  <2>2. NoEnd /\ (to = "released" => WasFunded)
    BY <2>1 DEF Escrow!StatusAllows, EscrowInTurn, RecordInTurn, Escrow!Set, Escrow!Ended, Counting,
                WasFunded
  <2>3. RecordInTurn'
    BY <2>1 DEF EscrowInTurn, RecordInTurn, NoEnd, Counting
  <2>4. \A q \in Workers : RouteInTurn(q)'
    BY <2>1, <2>2 DEF EscrowInTurn, RouteInTurn, NoEnd, WasFunded
  <2> QED
    BY <2>3, <2>4 DEF EscrowInTurn
<1>4. ASSUME NEW r \in Workers, Escrow!SetStatus(r)
      PROVE  EscrowInTurn'
  <2> DEFINE to == route[r].to
  <2>1. /\ route[r].pc = "set" /\ to \in Escrow!Set /\ NoEnd /\ (to = "released" => WasFunded)
        /\ route'[r] = [pc |-> "count", to |-> to]
        /\ Idle(r) /\ escrow' = to /\ UNCHANGED <<stats, routeFaults>>
    BY <1>4 DEF Escrow!SetStatus, Escrow!Goto, EscrowInv, EscrowTypes, EscrowInTurn, RouteInTurn
  <2>2. RecordInTurn'
    BY <2>1 DEF EscrowInTurn, RecordInTurn, NoEnd, Counting
  <2>3. \A q \in Workers : RouteInTurn(q)'
    BY <2>1 DEF EscrowInTurn, RouteInTurn, NoEnd, WasFunded
  <2> QED
    BY <2>2, <2>3 DEF EscrowInTurn
<1>5. ASSUME NEW r \in Workers, Escrow!Count(r)
      PROVE  EscrowInTurn'
  <2> DEFINE to == route[r].to
  <2>1. /\ route[r].pc = "count" /\ to \in Escrow!Set /\ escrow \in {to, "expired"}
        /\ to \in Escrow!Ended => NoEnd
        /\ to = "released" => WasFunded
        /\ Idle(r) /\ UNCHANGED <<escrow, routeFaults>>
        /\ route'[r] = [pc |-> "idle", to |-> "none"]
    BY <1>5 DEF Escrow!Count, Escrow!Goto, EscrowInv, EscrowTypes, EscrowInTurn, RouteInTurn
  <2>2. \A s \in Escrow!Set : stats'[s] = IF s = to THEN stats[s] + 1 ELSE stats[s]
    BY <1>5 DEF Escrow!Count, EscrowInv, EscrowTypes
  <2>3. \A s \in Escrow!Set : Counting(s) => s = to
    BY <2>1 DEF Counting
  <2>4. \A s \in Escrow!Set : stats[s] \in Nat /\ routeFaults \in Nat
    BY DEF EscrowInv, EscrowTypes
  <2>5. RecordInTurn'
    BY <2>1, <2>2, <2>3, <2>4 DEF EscrowInTurn, RecordInTurn, NoEnd, WasFunded,
          Escrow!Set, Escrow!Ended
  <2>6. \A q \in Workers : RouteInTurn(q)'
    BY <2>1 DEF EscrowInTurn, RouteInTurn
  <2> QED
    BY <2>5, <2>6 DEF EscrowInTurn
<1>6. ASSUME NEW r \in Workers, Escrow!Throw(r)
      PROVE  EscrowInTurn'
  <2>1. /\ route[r].pc # "idle" /\ routeFaults' = routeFaults + 1
        /\ route'[r] = [pc |-> "idle", to |-> "none"]
        /\ UNCHANGED <<escrow, stats>>
    BY <1>6 DEF Escrow!Throw, Escrow!Goto, EscrowInv, EscrowTypes
  <2>2. Idle(r)
    BY <1>6, <2>1 DEF Escrow!Throw, Escrow!Goto, EscrowInv, EscrowTypes, EscrowInTurn, RouteInTurn
  <2>3. \A s \in Escrow!Set : stats[s] \in Nat /\ routeFaults \in Nat
    BY DEF EscrowInv, EscrowTypes
  <2>4. RecordInTurn'
    BY <2>1, <2>3 DEF EscrowInTurn, RecordInTurn, NoEnd, Escrow!Set, Escrow!Ended
  <2>5. \A q \in Workers : RouteInTurn(q)'
    BY <2>1, <2>2 DEF EscrowInTurn, RouteInTurn
  <2> QED
    BY <2>4, <2>5 DEF EscrowInTurn
<1> QED
  BY <1>1, <1>2, <1>3, <1>4, <1>5, <1>6 DEF Escrow!Next

\* An escrow is released or refunded once, and released only when it was funded, for any
\* number of requests that do not overlap, whatever expires and whatever Redis throws.
THEOREM EscrowsEndOnce == ServicesSpec => []EndsOnce
<1> DEFINE Inv == part = "escrow" => EscrowInv
<1>1. ServicesInit => Inv
  <2> SUFFICES ASSUME Escrow!Init PROVE EscrowInv
    BY DEF ServicesInit
  <2>1. EscrowTypes
    BY DEF Escrow!Init, Escrow!NoRoute, EscrowTypes, Escrow!Set
  <2>2. RecordInTurn /\ \A r \in Workers : RouteInTurn(r)
    BY DEF Escrow!Init, Escrow!NoRoute, RecordInTurn, RouteInTurn, NoEnd, Escrow!Set, Escrow!Ended
  <2> QED
    BY <2>1, <2>2 DEF EscrowInv, EscrowInTurn
<1>2. Inv /\ [ServicesNext]_servicesVars => Inv'
  <2>1. [ServicesNext]_servicesVars /\ part = "escrow" => [Escrow!Next]_escrowVars
    BY DEF ServicesNext, servicesVars
  <2>2. [ServicesNext]_servicesVars => part' = part
    BY DEF ServicesNext, servicesVars
  <2>3. EscrowInv /\ [Escrow!Next]_escrowVars => EscrowInv'
    BY EscrowTyped, EscrowTurn DEF EscrowInv
  <2> QED
    BY <2>1, <2>2, <2>3
<1>3. Inv => EndsOnce
  <2> SUFFICES ASSUME EscrowInv PROVE Escrow!EndsOnce
    BY DEF EndsOnce
  <2>1. (\A r \in Workers : route[r].pc = "idle") => \A s \in Escrow!Set : ~Counting(s)
    BY DEF Counting
  <2> QED
    BY <2>1 DEF EscrowInv, EscrowInTurn, RecordInTurn, Escrow!EndsOnce, Escrow!Set, Escrow!Ended
<1> QED
  BY <1>1, <1>2, <1>3, PTL DEF ServicesSpec

-----------------------------------------------------------------------------
\* How many of S are at one of the points P, and when one of them moves
Among(S, f, P) == Cardinality({x \in S : f[x] \in P})
Weight(v, P) == IF v \in P THEN 1 ELSE 0

LEMMA AmongType ==
    ASSUME NEW S, IsFiniteSet(S), NEW f, NEW P
    PROVE  Among(S, f, P) \in Nat
<1>1. IsFiniteSet({x \in S : f[x] \in P})
  BY FS_Subset
<1> QED
  BY <1>1, FS_CardinalityType DEF Among

LEMMA AmongMoves ==
    ASSUME NEW S, IsFiniteSet(S), NEW P, NEW f, NEW g, NEW x \in S,
           \A y \in S \ {x} : g[y] = f[y]
    PROVE  /\ Among(S, f, P) \in Nat /\ Among(S, g, P) \in Nat
           /\ Weight(f[x], P) \in {0, 1} /\ Weight(g[x], P) \in {0, 1}
           /\ Among(S, g, P) = Among(S, f, P) + (Weight(g[x], P) - Weight(f[x], P))
<1> DEFINE A == {y \in S : f[y] \in P}
           B == {y \in S : g[y] \in P}
<1>1. IsFiniteSet(A) /\ IsFiniteSet(B) /\ Cardinality(A) \in Nat /\ Cardinality(B) \in Nat
  <2>1. A \subseteq S /\ B \subseteq S
    OBVIOUS
  <2> QED
    BY <2>1, FS_Subset, FS_CardinalityType
<1>2. (f[x] \in P <=> g[x] \in P) => A = B
  OBVIOUS
<1>3. f[x] \in P /\ g[x] \notin P => x \in A /\ B = A \ {x}
  OBVIOUS
<1>4. f[x] \notin P /\ g[x] \in P => x \notin A /\ B = A \cup {x}
  OBVIOUS
<1>5. Among(S, f, P) = Cardinality(A) /\ Among(S, g, P) = Cardinality(B)
  BY DEF Among
<1> HIDE DEF A, B
<1>6. x \in A => Cardinality(A \ {x}) = Cardinality(A) - 1
  BY <1>1, FS_RemoveElement
<1>7. x \notin A => Cardinality(A \cup {x}) = Cardinality(A) + 1
  BY <1>1, FS_AddElement
<1>8. CASE f[x] \in P <=> g[x] \in P
  BY <1>1, <1>2, <1>5, <1>8 DEF Weight
<1>9. CASE f[x] \in P /\ g[x] \notin P
  BY <1>1, <1>3, <1>5, <1>6, <1>9 DEF Weight
<1>10. CASE f[x] \notin P /\ g[x] \in P
  <2>1. x \notin A /\ B = A \cup {x}
    BY <1>4, <1>10
  <2>2. Cardinality(B) = Cardinality(A) + 1
    BY <1>7, <2>1
  <2>3. Weight(f[x], P) = 0 /\ Weight(g[x], P) = 1
    BY <1>10 DEF Weight
  <2> QED
    BY <1>1, <1>5, <2>2, <2>3
<1> QED
  BY <1>8, <1>9, <1>10

\* The testing sandbox: every entry of the queue, every run that may still pay one back,
\* and every payment that was paid back belong to another call that the payment has
\* bought, and so do the calls that have still to be recorded.
ToPay == {"get", "find", "send"}
ToRecord == {"verified", "push"}
Unpaid == Among(Others, run, ToPay)
Unrecorded == Among(Workers, check, ToRecord)

SandboxTypes ==
    /\ store \in {"redis", "memory"}
    /\ now \in Nat /\ until \in Nat /\ accepted \in Nat /\ queue \in Nat /\ refunds \in Nat
    /\ checkFaults \in Nat
    /\ doubled \in BOOLEAN
    /\ check \in [Workers -> {"idle", "has", "fetch", "add", "verified", "push", "next"}]
    /\ record \in {"none", "pending", "refunded", "failed"}
    /\ run \in [Others -> {"idle", "get", "find", "send", "confirm", "write", "fail"}]

Claimed ==
    /\ queue + Unpaid + Unrecorded + refunds <= accepted
    /\ \A r \in Others : run[r] \in {"confirm", "write"} => refunds > 0
    /\ record = "refunded" => refunds > 0

\* A step of one call, and one of a run
CallMoves(c, from, to) ==
    /\ check[c] = from /\ check' = [check EXCEPT ![c] = to]
RunMoves(r, from, to) ==
    /\ run[r] = from /\ run' = [run EXCEPT ![r] = to]

LEMMA CallClaims ==
    ASSUME SandboxTypes, Claimed, NEW c \in Workers, NEW from, NEW to, CallMoves(c, from, to),
           UNCHANGED <<run, refunds>>, queue' \in Nat, accepted' \in Nat,
           record' = "refunded" => record = "refunded",
           queue' - queue + (Weight(to, ToRecord) - Weight(from, ToRecord)) <= accepted' - accepted
    PROVE  Claimed'
<1>1. check'[c] = to /\ check[c] = from /\ \A d \in Workers \ {c} : check'[d] = check[d]
  BY DEF CallMoves, SandboxTypes
<1>2. /\ Unrecorded \in Nat /\ Unrecorded' \in Nat
      /\ Weight(from, ToRecord) \in {0, 1} /\ Weight(to, ToRecord) \in {0, 1}
      /\ Unrecorded' = Unrecorded + (Weight(to, ToRecord) - Weight(from, ToRecord))
  BY <1>1, AmongMoves, ServicesAssumption DEF Unrecorded
<1>3. Unpaid' = Unpaid /\ Unpaid \in Nat
  BY AmongType, ServicesAssumption DEF Unpaid
<1> QED
  BY <1>2, <1>3 DEF Claimed, SandboxTypes

LEMMA RunClaims ==
    ASSUME SandboxTypes, Claimed, NEW r \in Others, NEW from, NEW to, RunMoves(r, from, to),
           UNCHANGED <<check, accepted>>, queue' \in Nat, refunds' \in Nat, refunds' >= refunds,
           to \in {"confirm", "write"} => refunds' > 0,
           record' = "refunded" => refunds' > 0,
           queue' - queue + (refunds' - refunds) + (Weight(to, ToPay) - Weight(from, ToPay)) <= 0
    PROVE  Claimed'
<1>1. run'[r] = to /\ run[r] = from /\ \A s \in Others \ {r} : run'[s] = run[s]
  BY DEF RunMoves, SandboxTypes
<1>2. /\ Unpaid \in Nat /\ Unpaid' \in Nat
      /\ Weight(from, ToPay) \in {0, 1} /\ Weight(to, ToPay) \in {0, 1}
      /\ Unpaid' = Unpaid + (Weight(to, ToPay) - Weight(from, ToPay))
  BY <1>1, AmongMoves, ServicesAssumption DEF Unpaid
<1>3. Unrecorded' = Unrecorded /\ Unrecorded \in Nat
  BY AmongType, ServicesAssumption DEF Unrecorded
<1>4. \A s \in Others : run'[s] \in {"confirm", "write"} => refunds' > 0
  BY <1>1 DEF Claimed, SandboxTypes
<1> QED
  BY <1>2, <1>3, <1>4 DEF Claimed, SandboxTypes

LEMMA SandboxTyped ==
    ASSUME SandboxTypes, [Sandbox!NextSandbox]_sandboxVars
    PROVE  SandboxTypes'
<1>1. CASE UNCHANGED sandboxVars
  BY <1>1 DEF sandboxVars, SandboxTypes
<1>2. ASSUME NEW c \in Workers, Sandbox!Verify(c) /\ UNCHANGED Sandbox!refundVars
      PROVE  SandboxTypes'
  <2>1. /\ UNCHANGED <<record, queue, run, refunds, store, now>>
        /\ \E to \in {"idle", "has", "fetch", "add", "verified"} : check' = [check EXCEPT ![c] = to]
    BY <1>2 DEF Sandbox!refundVars, Sandbox!Verify, Sandbox!Begin, Sandbox!HasSignature,
          Sandbox!Validate, Sandbox!Add, Sandbox!Serve, Sandbox!StoreThrows, Sandbox!Goto,
          Sandbox!Has
  <2>2. until' \in {until, now + Ttl} /\ accepted' \in {accepted, accepted + 1}
        /\ checkFaults' \in {checkFaults, checkFaults + 1}
    BY <1>2 DEF Sandbox!Verify, Sandbox!Begin, Sandbox!HasSignature, Sandbox!Validate,
          Sandbox!Add, Sandbox!Serve, Sandbox!StoreThrows, Sandbox!CheckFault
  <2>3. doubled' \in BOOLEAN
    BY <1>2 DEF Sandbox!Verify, Sandbox!Begin, Sandbox!HasSignature, Sandbox!Validate,
          Sandbox!Add, Sandbox!Serve, Sandbox!StoreThrows, SandboxTypes
  <2>4. Ttl \in Nat
    BY ServicesAssumption DEF Sandbox!VerifierAssumption
  <2> QED
    BY <2>1, <2>2, <2>3, <2>4 DEF SandboxTypes
<1>3. ASSUME NEW c \in Workers,
             Sandbox!SetRecord(c) \/ Sandbox!Push(c) \/ Sandbox!CallbackThrows(c)
      PROVE  SandboxTypes'
  BY <1>3 DEF SandboxTypes, Sandbox!SetRecord, Sandbox!Push, Sandbox!CallbackThrows,
        Sandbox!CheckFault, Sandbox!Goto
<1>4. ASSUME NEW r \in Others,
             \/ Sandbox!Pop(r) \/ Sandbox!Get(r) \/ Sandbox!Find(r) \/ Sandbox!Send(r)
             \/ Sandbox!Confirm(r) \/ Sandbox!WriteRefunded(r) \/ Sandbox!WriteFailed(r)
      PROVE  SandboxTypes'
  BY <1>4 DEF SandboxTypes, Sandbox!Pop, Sandbox!Get, Sandbox!Find, Sandbox!Send,
        Sandbox!Confirm, Sandbox!WriteRefunded, Sandbox!WriteFailed, Sandbox!RunStep,
        Sandbox!verifierVars
<1>5. ASSUME NEW r \in Others, Sandbox!RunThrows(r) PROVE SandboxTypes'
  BY <1>5 DEF SandboxTypes, Sandbox!RunThrows, Sandbox!CheckFault
<1>6. CASE Sandbox!Tick /\ UNCHANGED Sandbox!refundVars
  BY <1>6 DEF SandboxTypes, Sandbox!Tick, Sandbox!refundVars
<1>7. CASE Sandbox!RestartSandbox
  BY <1>7 DEF SandboxTypes, Sandbox!RestartSandbox, Sandbox!Restart, Sandbox!CheckFault
<1> QED
  BY <1>1, <1>2, <1>3, <1>4, <1>5, <1>6, <1>7 DEF Sandbox!NextSandbox

LEMMA SandboxClaimed ==
    ASSUME SandboxTypes, SandboxTypes', Claimed, [Sandbox!NextSandbox]_sandboxVars
    PROVE  Claimed'
<1> USE DEF Sandbox!At, Sandbox!Goto
<1>0. /\ \A v \in {"verified", "push"} : Weight(v, ToRecord) = 1
      /\ \A v \in {"idle", "has", "fetch", "add", "next"} : Weight(v, ToRecord) = 0
      /\ \A v \in {"get", "find", "send"} : Weight(v, ToPay) = 1
      /\ \A v \in {"idle", "confirm", "write", "fail"} : Weight(v, ToPay) = 0
  BY DEF Weight, ToRecord, ToPay
<1>1. CASE UNCHANGED sandboxVars
  BY <1>1 DEF sandboxVars, Claimed, Unpaid, Unrecorded
<1>2. ASSUME NEW c \in Workers, Sandbox!Verify(c) /\ UNCHANGED Sandbox!refundVars
      PROVE  Claimed'
  <2>1. UNCHANGED <<record, queue, run, refunds>>
    BY <1>2 DEF Sandbox!refundVars
  <2>2. CASE Sandbox!Add(c)
    <3>1. CallMoves(c, "add", "verified") /\ accepted' = accepted + 1
      BY <2>2 DEF Sandbox!Add, CallMoves
    <3> QED
      BY <1>0, <2>1, <3>1, CallClaims DEF SandboxTypes
  <2>3. CASE ~Sandbox!Add(c)
    <3>1. accepted' = accepted /\ \E from, to \in {"idle", "has", "fetch", "add", "next"} :
                                      CallMoves(c, from, to)
      BY <1>2, <2>3 DEF Sandbox!Verify, Sandbox!Begin, Sandbox!HasSignature, Sandbox!Validate,
            Sandbox!Serve, Sandbox!StoreThrows, Sandbox!Has, CallMoves
    <3> QED
      BY <1>0, <2>1, <3>1, CallClaims DEF SandboxTypes
  <2> QED
    BY <2>2, <2>3
<1>3. ASSUME NEW c \in Workers,
             Sandbox!SetRecord(c) \/ Sandbox!Push(c) \/ Sandbox!CallbackThrows(c)
      PROVE  Claimed'
  <2>1. /\ UNCHANGED <<run, refunds, accepted>>
        /\ record' = "refunded" => record = "refunded"
        /\ \/ CallMoves(c, "verified", "push") /\ queue' = queue
           \/ CallMoves(c, "push", "next") /\ queue' = queue + 1
           \/ CallMoves(c, "verified", "idle") /\ queue' = queue
           \/ CallMoves(c, "push", "idle") /\ queue' \in {queue, queue + 1}
    BY <1>3 DEF Sandbox!SetRecord, Sandbox!Push, Sandbox!CallbackThrows, CallMoves
  <2>2. PICK from \in {"verified", "push"}, to \in {"push", "next", "idle"} :
          /\ CallMoves(c, from, to)
          /\ queue' - queue + (Weight(to, ToRecord) - Weight(from, ToRecord))
                <= accepted' - accepted
    BY <1>0, <2>1 DEF SandboxTypes
  <2> QED
    BY <2>1, <2>2, CallClaims DEF SandboxTypes
<1>4. ASSUME NEW r \in Others,
             \/ Sandbox!Pop(r) \/ Sandbox!Get(r) \/ Sandbox!Find(r) \/ Sandbox!Send(r)
             \/ Sandbox!Confirm(r) \/ Sandbox!WriteRefunded(r) \/ Sandbox!WriteFailed(r)
      PROVE  Claimed'
  <2>1. UNCHANGED <<check, accepted>>
    BY <1>4 DEF Sandbox!Pop, Sandbox!Get, Sandbox!Find, Sandbox!Send, Sandbox!Confirm,
          Sandbox!WriteRefunded, Sandbox!WriteFailed, Sandbox!RunStep, Sandbox!verifierVars
  <2>2. CASE Sandbox!Pop(r)
    <3>1. RunMoves(r, "idle", "get") /\ queue' = queue - 1 /\ UNCHANGED <<record, refunds>>
      BY <2>2 DEF Sandbox!Pop, Sandbox!RunStep, RunMoves
    <3> QED
      BY <1>0, <2>1, <3>1, RunClaims DEF SandboxTypes, Claimed
  <2>3. CASE Sandbox!Get(r) \/ Sandbox!Find(r)
    <3>1. PICK from \in {"get", "find"}, to \in {"idle", "find", "send", "fail"} :
            RunMoves(r, from, to)
      BY <2>3 DEF Sandbox!Get, Sandbox!Find, Sandbox!RunStep, RunMoves
    <3>2. UNCHANGED <<queue, record, refunds>>
      BY <2>3 DEF Sandbox!Get, Sandbox!Find
    <3>3. Weight(from, ToPay) = 1 /\ Weight(to, ToPay) \in {0, 1}
      BY <1>0
    <3> QED
      BY <2>1, <3>1, <3>2, <3>3, RunClaims DEF SandboxTypes, Claimed
  <2>4. CASE Sandbox!Send(r)
    <3>1. UNCHANGED <<queue, record>>
      BY <2>4 DEF Sandbox!Send
    <3>2. \/ RunMoves(r, "send", "confirm") /\ refunds' = refunds + 1
          \/ RunMoves(r, "send", "fail") /\ refunds' = refunds
      BY <2>4 DEF Sandbox!Send, Sandbox!RunStep, RunMoves
    <3> QED
      BY <1>0, <2>1, <3>1, <3>2, RunClaims DEF SandboxTypes, Claimed
  <2>5. CASE Sandbox!Confirm(r) \/ Sandbox!WriteRefunded(r) \/ Sandbox!WriteFailed(r)
    <3>1. /\ UNCHANGED <<queue, refunds>>
          /\ record' = "refunded" => record = "refunded" \/ run[r] = "write"
      BY <2>5 DEF Sandbox!Confirm, Sandbox!WriteRefunded, Sandbox!WriteFailed, Sandbox!RunStep
    <3>2. PICK from \in {"confirm", "write", "fail"}, to \in {"write", "fail", "idle"} :
            RunMoves(r, from, to) /\ (to = "write" => from = "confirm")
      BY <2>5 DEF Sandbox!Confirm, Sandbox!WriteRefunded, Sandbox!WriteFailed, Sandbox!RunStep,
            RunMoves
    <3>3. Weight(from, ToPay) = 0 /\ Weight(to, ToPay) = 0
      BY <1>0
    <3>4. (record' = "refunded" => refunds > 0) /\ (to \in {"confirm", "write"} => refunds > 0)
      BY <3>1, <3>2 DEF Claimed, RunMoves
    <3> QED
      BY <2>1, <3>1, <3>2, <3>3, <3>4, RunClaims DEF SandboxTypes
  <2> QED
    BY <1>4, <2>2, <2>3, <2>4, <2>5
<1>5. ASSUME NEW r \in Others, Sandbox!RunThrows(r) PROVE Claimed'
  <2>1. UNCHANGED <<check, accepted, refunds>>
    BY <1>5 DEF Sandbox!RunThrows
  <2>2. CASE run' = run
    <3>1. queue' <= queue /\ (record' = "refunded" => record = "refunded" \/ run[r] = "write")
      BY <1>5 DEF Sandbox!RunThrows, SandboxTypes
    <3>2. Unpaid' = Unpaid /\ Unrecorded' = Unrecorded /\ Unpaid \in Nat /\ Unrecorded \in Nat
      BY <2>1, <2>2, AmongType, ServicesAssumption DEF Unpaid, Unrecorded
    <3>3. (record' = "refunded" => refunds > 0) /\ queue \in Nat /\ queue' \in Nat
      BY <3>1 DEF Claimed, SandboxTypes
    <3>4. queue + Unpaid + Unrecorded + refunds <= accepted /\ refunds \in Nat /\ accepted \in Nat
      BY DEF Claimed, SandboxTypes
    <3>5. queue' + Unpaid + Unrecorded + refunds <= accepted
      <4>1. \A q, o, u, w, n, m \in Nat : q <= o /\ o + u + w + n <= m => q + u + w + n <= m
        OBVIOUS
      <4> QED
        BY <3>1, <3>2, <3>3, <3>4, <4>1
    <3> QED
      BY <2>1, <2>2, <3>2, <3>3, <3>5 DEF Claimed
  <2>3. CASE run' # run
    <3>1. PICK from \in {"write", "get", "fail"}, to \in {"fail", "idle"} : RunMoves(r, from, to)
      BY <1>5, <2>3 DEF Sandbox!RunThrows, RunMoves
    <3>2. queue' = queue /\ (record' = "refunded" => record = "refunded" \/ run[r] = "write")
      BY <1>5, <2>3 DEF Sandbox!RunThrows
    <3>3. Weight(from, ToPay) \in {0, 1} /\ Weight(to, ToPay) = 0
      BY <1>0
    <3>4. record' = "refunded" => refunds > 0
      BY <3>2 DEF Claimed
    <3> QED
      BY <2>1, <3>1, <3>2, <3>3, <3>4, RunClaims DEF SandboxTypes
  <2> QED
    BY <2>2, <2>3
<1>6. CASE Sandbox!Tick /\ UNCHANGED Sandbox!refundVars
  BY <1>6 DEF Sandbox!Tick, Sandbox!refundVars, Claimed, Unpaid, Unrecorded
<1>7. CASE Sandbox!RestartSandbox
  <2>1. /\ UNCHANGED <<record, queue, refunds, accepted>>
        /\ check' = [c \in Workers |-> "idle"] /\ run' = [r \in Others |-> "idle"]
    BY <1>7 DEF Sandbox!RestartSandbox, Sandbox!Restart
  <2>2. Unpaid' = 0 /\ Unrecorded' = 0
    <3>1. {r \in Others : run'[r] \in ToPay} = {} /\ {c \in Workers : check'[c] \in ToRecord} = {}
      BY <2>1 DEF ToPay, ToRecord
    <3> QED
      BY <3>1, FS_EmptySet DEF Unpaid, Unrecorded, Among
  <2>3. Unpaid \in Nat /\ Unrecorded \in Nat
    BY AmongType, ServicesAssumption DEF Unpaid, Unrecorded
  <2> QED
    BY <2>1, <2>2, <2>3 DEF Claimed, SandboxTypes
<1> QED
  BY <1>1, <1>2, <1>3, <1>4, <1>5, <1>6, <1>7 DEF Sandbox!NextSandbox

\* A payment is paid back at most once for every call that it has bought, and what is
\* recorded as refunded was paid back, for any number of calls and runs, whatever Redis
\* and the chain throw and whenever the process is started again.
THEOREM RefundsAreCovered == ServicesSpec => []RefundsCovered
<1> DEFINE Inv == part = "sandbox" => SandboxTypes /\ Claimed
<1>1. ServicesInit => Inv
  <2> SUFFICES ASSUME Sandbox!InitSandbox PROVE SandboxTypes /\ Claimed
    BY DEF ServicesInit
  <2>1. SandboxTypes
    BY DEF Sandbox!InitSandbox, Sandbox!Init, SandboxTypes
  <2>2. Unpaid = 0 /\ Unrecorded = 0
    <3>1. {r \in Others : run[r] \in ToPay} = {} /\ {c \in Workers : check[c] \in ToRecord} = {}
      BY DEF Sandbox!InitSandbox, Sandbox!Init, ToPay, ToRecord
    <3> QED
      BY <3>1, FS_EmptySet DEF Unpaid, Unrecorded, Among
  <2> QED
    BY <2>1, <2>2 DEF Claimed, Sandbox!InitSandbox, Sandbox!Init
<1>2. Inv /\ [ServicesNext]_servicesVars => Inv'
  <2>1. [ServicesNext]_servicesVars /\ part = "sandbox" => [Sandbox!NextSandbox]_sandboxVars
    BY DEF ServicesNext, servicesVars
  <2>2. [ServicesNext]_servicesVars => part' = part
    BY DEF ServicesNext, servicesVars
  <2> QED
    BY <2>1, <2>2, SandboxTyped, SandboxClaimed
<1>3. Inv => RefundsCovered
  <2> SUFFICES ASSUME SandboxTypes, Claimed PROVE Sandbox!RefundsCovered
    BY DEF RefundsCovered
  <2>1. Unpaid \in Nat /\ Unrecorded \in Nat
    BY AmongType, ServicesAssumption DEF Unpaid, Unrecorded
  <2> QED
    BY <2>1 DEF SandboxTypes, Claimed, Sandbox!RefundsCovered
<1> QED
  BY <1>1, <1>2, <1>3, PTL DEF ServicesSpec

-----------------------------------------------------------------------------
\* BuysAtMost: while calls take turns. Span is the least time between two calls that one
\* store sells, and Sold counts these, from memory those without the ones that a restart
\* has given away. Both products are kept below what the time allows: the last
\* acceptance was Span after the one before, and the call of each began before the
\* payload was too old.
Span == IF store = "redis" THEN Ttl ELSE Ttl + 1
Sold == IF store = "redis" THEN accepted ELSE accepted - checkFaults

SoldInRedis ==
    /\ Sold * Span <= until
    /\ Sold * Span <= MaxPayloadAge + 2 * Span
    /\ \A c \in Workers :
          /\ check[c] \in {"has", "fetch", "add"} => Sold * Span <= MaxPayloadAge + Span
          /\ check[c] \in {"fetch", "add"} => until <= now

SoldFromMemory ==
    /\ IF until > 0 THEN Sold * Span <= until + 1 ELSE Sold * Span <= now
    /\ Sold * Span <= MaxPayloadAge + Span
    /\ \A c \in Workers :
          /\ check[c] # "has"
          /\ check[c] \in {"fetch", "add"} => Sold * Span <= MaxPayloadAge /\ Sold * Span <= now

SoldInTurn ==
    /\ \A c, d \in Workers : c # d => check[c] = "idle" \/ check[d] = "idle"
    /\ until <= now + Ttl
    /\ store = "redis" => SoldInRedis
    /\ store = "memory" => SoldFromMemory

LEMMA Product ==
    ASSUME NEW n \in Int, NEW m \in Nat
    PROVE  /\ n * m \in Int
           /\ (n + 1) * m = n * m + m
           /\ (n - 1) * m = n * m - m
OBVIOUS

\* Dividing by the span
LEMMA Quotient ==
    ASSUME NEW n \in Int, NEW m \in Nat \ {0}, NEW a \in Nat, NEW k \in Nat,
           n * m <= a + k * m
    PROVE  n <= k + a \div m
<1> DEFINE q == a \div m
<1>1. q \in Nat /\ a < (q + 1) * m
  OBVIOUS
<1> HIDE DEF q
<1>2. SUFFICES ASSUME n >= k + q + 1 PROVE FALSE
  BY <1>1 DEF q
<1>3. n * m >= (k + q + 1) * m
  BY <1>1, <1>2
<1>4. (k + q + 1) * m = k * m + (q + 1) * m
  BY <1>1
<1> QED
  BY <1>1, <1>3, <1>4

LEMMA SpanAndSold ==
    ASSUME SandboxTypes
    PROVE  /\ Ttl \in Nat \ {0} /\ Span \in Nat \ {0} /\ Sold \in Int
           /\ MaxPayloadAge \in Nat
           /\ Sold * Span \in Int
<1>1. Ttl \in Nat \ {0} /\ MaxPayloadAge \in Nat
  BY ServicesAssumption DEF Sandbox!VerifierAssumption
<1>2. Span \in Nat \ {0} /\ Sold \in Int
  BY <1>1 DEF Span, Sold, SandboxTypes
<1> QED
  BY <1>1, <1>2, Product

\* A step that begins no check and sells nothing
LEMMA SellsNothing ==
    ASSUME SandboxTypes, SandboxTypes', SoldInTurn, UNCHANGED <<store, now, until, accepted>>,
           checkFaults' \in {checkFaults, checkFaults + 1},
           \A c \in Workers :
              /\ check'[c] = "has" => check[c] = "has"
              /\ check'[c] \in {"fetch", "add"} => check[c] \in {"fetch", "add"}
              /\ check'[c] # "idle" => check[c] # "idle"
    PROVE  SoldInTurn'
<1>1. Span \in Nat /\ Sold \in Int /\ Sold * Span \in Int /\ now \in Nat /\ until \in Nat
      /\ MaxPayloadAge \in Nat /\ store \in {"redis", "memory"}
  BY SpanAndSold DEF SandboxTypes
<1>2. Span' = Span
  BY DEF Span
<1>3. Sold' = Sold \/ Sold' = Sold - 1
  <2>1. \A m, n \in Int : m - (n + 1) = (m - n) - 1
    OBVIOUS
  <2>2. accepted \in Int /\ checkFaults \in Int /\ store' = store /\ accepted' = accepted
    BY DEF SandboxTypes
  <2>3. CASE store = "redis"
    BY <2>2, <2>3 DEF Sold
  <2>4. CASE store # "redis"
    <3>1. Sold = accepted - checkFaults /\ Sold' = accepted - checkFaults'
      BY <2>2, <2>4 DEF Sold
    <3> QED
      BY <2>1, <2>2, <3>1
  <2> QED
    BY <2>3, <2>4
<1>4. Sold' * Span' \in Int /\ Sold' * Span' <= Sold * Span
  <2>1. (Sold - 1) * Span = Sold * Span - Span
    BY <1>1, Product
  <2> QED
    BY <1>1, <1>2, <1>3, <2>1
<1>5. (\A c, d \in Workers : c # d => check'[c] = "idle" \/ check'[d] = "idle")
      /\ until' <= now' + Ttl
  BY DEF SoldInTurn
<1>6. store = "redis" => SoldInRedis'
  BY <1>1, <1>2, <1>4 DEF SoldInTurn, SoldInRedis
<1>7. store = "memory" => SoldFromMemory'
  BY <1>1, <1>2, <1>4 DEF SoldInTurn, SoldFromMemory
<1> QED
  BY <1>5, <1>6, <1>7 DEF SoldInTurn

LEMMA SoldKept ==
    ASSUME SandboxTypes, SandboxTypes', SoldInTurn, [Sandbox!NextSandbox]_sandboxVars, ~doubled'
    PROVE  SoldInTurn'
<1> USE DEF Sandbox!At, Sandbox!Goto
<1>0. /\ Ttl \in Nat \ {0} /\ MaxPayloadAge \in Nat /\ now \in Nat /\ until \in Nat
      /\ Span \in Nat \ {0} /\ Sold \in Int /\ Sold * Span \in Int
      /\ store \in {"redis", "memory"}
      /\ (store = "redis" => Span = Ttl) /\ (store = "memory" => Span = Ttl + 1)
  BY SpanAndSold DEF SandboxTypes, Span
<1>1. CASE UNCHANGED sandboxVars
  BY <1>1, SellsNothing DEF sandboxVars
<1>2. ASSUME NEW c \in Workers, Sandbox!Verify(c)
      PROVE  SoldInTurn'
  <2>1. CASE Sandbox!Begin(c)
    <3>1. /\ check[c] = "idle" /\ now <= MaxPayloadAge
          /\ UNCHANGED <<store, now, until, accepted, checkFaults>>
          /\ \A d \in Workers \ {c} : check'[d] = "idle"
          /\ IF store = "redis" THEN check'[c] = "has"
             ELSE check'[c] = IF Sandbox!Remembered THEN "idle" ELSE "fetch"
      BY <2>1 DEF Sandbox!Begin, Sandbox!Has, SandboxTypes
    <3>2. Sold' = Sold /\ Span' = Span
      BY <3>1 DEF Sold, Span
    <3>3. store = "redis" => SoldInRedis'
      BY <1>0, <3>1, <3>2 DEF SoldInTurn, SoldInRedis
    <3>4. ASSUME store = "memory" PROVE SoldFromMemory'
      <4>1. ~Sandbox!Remembered => Sold * Span <= now
        BY <1>0, <3>4 DEF Sandbox!Remembered, SoldInTurn, SoldFromMemory
      <4> QED
        BY <1>0, <3>1, <3>2, <3>4, <4>1 DEF SoldInTurn, SoldFromMemory
    <3> QED
      BY <3>1, <3>3, <3>4 DEF SoldInTurn
  <2>2. CASE Sandbox!HasSignature(c)
    <3>1. /\ check[c] = "has" /\ UNCHANGED <<store, now, until, accepted, checkFaults>>
          /\ check' = [check EXCEPT ![c] = IF Sandbox!Remembered THEN "idle" ELSE "fetch"]
      BY <2>2 DEF Sandbox!HasSignature, Sandbox!Has
    <3>2. Sold' = Sold /\ Span' = Span
      BY <3>1 DEF Sold, Span
    <3>3. store = "redis" /\ SoldInRedis
      BY <1>0, <3>1 DEF SoldInTurn, SoldFromMemory
    <3>4. ~Sandbox!Remembered => until <= now
      BY <1>0, <3>3 DEF Sandbox!Remembered
    <3>5. SoldInRedis'
      BY <1>0, <3>1, <3>2, <3>3, <3>4 DEF SoldInRedis, SandboxTypes
    <3> QED
      BY <3>1, <3>3, <3>5 DEF SoldInTurn, SandboxTypes
  <2>3. CASE Sandbox!Validate(c) \/ Sandbox!Serve(c)
    <3>1. /\ UNCHANGED <<store, now, until, accepted, checkFaults>>
          /\ \A d \in Workers :
                /\ check'[d] = "has" => check[d] = "has"
                /\ check'[d] \in {"fetch", "add"} => check[d] \in {"fetch", "add"}
                /\ check'[d] # "idle" => check[d] # "idle"
      BY <2>3 DEF Sandbox!Validate, Sandbox!Serve, SandboxTypes
    <3> QED
      BY <3>1, SellsNothing
  <2>4. CASE Sandbox!Add(c)
    <3>1. /\ check[c] = "add" /\ check' = [check EXCEPT ![c] = "verified"]
          /\ until' = now + Ttl /\ accepted' = accepted + 1
          /\ UNCHANGED <<store, now, checkFaults>>
      BY <2>4 DEF Sandbox!Add
    <3>2. \A d \in Workers : check'[d] \notin {"has", "fetch", "add"}
      BY <3>1 DEF SoldInTurn, SandboxTypes
    <3>3. Span' = Span /\ Sold' = Sold + 1
      <4>1. \A m, n \in Int : (m + 1) - n = (m - n) + 1
        OBVIOUS
      <4> QED
        BY <3>1, <4>1 DEF Span, Sold, SandboxTypes
    <3>4. Sold' * Span' = Sold * Span + Span
      BY <1>0, <3>3, Product
    <3>5. store = "redis" => SoldInRedis'
      BY <1>0, <3>1, <3>2, <3>3, <3>4 DEF SoldInTurn, SoldInRedis
    <3>6. store = "memory" => SoldFromMemory'
      BY <1>0, <3>1, <3>2, <3>3, <3>4 DEF SoldInTurn, SoldFromMemory
    <3> QED
      BY <1>0, <3>1, <3>5, <3>6 DEF SoldInTurn, SandboxTypes
  <2>5. CASE Sandbox!StoreThrows(c)
    <3>1. /\ store = "redis" /\ check' = [check EXCEPT ![c] = "idle"]
          /\ until' = until \/ (until' = now + Ttl /\ check[c] = "add")
          /\ UNCHANGED <<store, now, accepted>>
      BY <2>5 DEF Sandbox!StoreThrows
    <3>2. Sold' = Sold /\ Span' = Span
      BY <3>1 DEF Sold, Span
    <3>3. until' <= now' + Ttl /\ (check[c] = "add" => until <= now)
      BY <1>0, <3>1 DEF SoldInTurn, SoldInRedis
    <3>4. \A d \in Workers : check'[d] # "idle" => check'[d] = check[d] /\ check[c] = "idle"
              /\ until' = until
      BY <2>5, <3>1 DEF SoldInTurn, SandboxTypes, Sandbox!StoreThrows
    <3>5. SoldInRedis'
      BY <1>0, <3>1, <3>2, <3>3, <3>4 DEF SoldInTurn, SoldInRedis
    <3> QED
      BY <3>1, <3>3, <3>4, <3>5 DEF SoldInTurn
  <2> QED
    BY <1>2, <2>1, <2>2, <2>3, <2>4, <2>5 DEF Sandbox!Verify
<1>3. ASSUME NEW c \in Workers,
             Sandbox!SetRecord(c) \/ Sandbox!Push(c) \/ Sandbox!CallbackThrows(c)
      PROVE  SoldInTurn'
  <2>1. /\ UNCHANGED <<store, now, until, accepted>>
        /\ checkFaults' \in {checkFaults, checkFaults + 1}
        /\ check[c] # "idle"
        /\ \E to \in {"push", "next", "idle"} : check' = [check EXCEPT ![c] = to]
    BY <1>3 DEF Sandbox!SetRecord, Sandbox!Push, Sandbox!CallbackThrows, Sandbox!CheckFault
  <2>2. \A d \in Workers :
           /\ check'[d] = "has" => check[d] = "has"
           /\ check'[d] \in {"fetch", "add"} => check[d] \in {"fetch", "add"}
           /\ check'[d] # "idle" => check[d] # "idle"
    BY <2>1 DEF SandboxTypes
  <2> QED
    BY <2>1, <2>2, SellsNothing
<1>4. ASSUME NEW r \in Others,
             \/ Sandbox!Pop(r) \/ Sandbox!Get(r) \/ Sandbox!Find(r) \/ Sandbox!Send(r)
             \/ Sandbox!Confirm(r) \/ Sandbox!WriteRefunded(r) \/ Sandbox!WriteFailed(r)
             \/ Sandbox!RunThrows(r)
      PROVE  SoldInTurn'
  <2>1. /\ UNCHANGED <<store, now, until, accepted>> /\ UNCHANGED check
        /\ checkFaults' \in {checkFaults, checkFaults + 1}
    BY <1>4 DEF Sandbox!Pop, Sandbox!Get, Sandbox!Find, Sandbox!Send, Sandbox!Confirm,
          Sandbox!WriteRefunded, Sandbox!WriteFailed, Sandbox!RunStep, Sandbox!verifierVars,
          Sandbox!RunThrows, Sandbox!CheckFault
  <2> QED
    BY <2>1, SellsNothing
<1>5. CASE Sandbox!Tick
  <2>1. now' = now + 1 /\ UNCHANGED <<store, until, check, accepted, checkFaults>>
    BY <1>5 DEF Sandbox!Tick
  <2>2. Sold' = Sold /\ Span' = Span
    BY <2>1 DEF Sold, Span
  <2>3. store = "redis" => SoldInRedis'
    BY <1>0, <2>1, <2>2 DEF SoldInTurn, SoldInRedis
  <2>4. store = "memory" => SoldFromMemory'
    BY <1>0, <2>1, <2>2 DEF SoldInTurn, SoldFromMemory
  <2> QED
    BY <1>0, <2>1, <2>3, <2>4 DEF SoldInTurn
<1>6. CASE Sandbox!RestartSandbox
  <2>1. /\ UNCHANGED <<store, now, accepted>> /\ checkFaults' = checkFaults + 1
        /\ check' = [c \in Workers |-> "idle"]
        /\ until' = IF store = "memory" THEN 0 ELSE until
    BY <1>6 DEF Sandbox!RestartSandbox, Sandbox!Restart, Sandbox!CheckFault
  <2>2. CASE store = "redis"
    <3>1. Sold' = Sold /\ Span' = Span
      BY <2>1, <2>2 DEF Sold, Span
    <3>2. SoldInRedis'
      BY <1>0, <2>1, <2>2, <3>1 DEF SoldInTurn, SoldInRedis
    <3> QED
      BY <2>1, <2>2, <3>2 DEF SoldInTurn
  <2>3. CASE store = "memory"
    <3>1. Span' = Span /\ Sold' = Sold - 1
      <4>1. \A m, n \in Int : m - (n + 1) = (m - n) - 1
        OBVIOUS
      <4> QED
        BY <2>1, <2>3, <4>1 DEF Span, Sold, SandboxTypes
    <3>2. Sold' * Span' = Sold * Span - Span
      BY <1>0, <3>1, Product
    <3>3. SoldFromMemory'
      BY <1>0, <2>1, <2>3, <3>1, <3>2 DEF SoldInTurn, SoldFromMemory
    <3> QED
      BY <1>0, <2>1, <2>3, <3>3 DEF SoldInTurn
  <2> QED
    BY <1>0, <2>2, <2>3
<1> QED
  BY <1>1, <1>2, <1>3, <1>4, <1>5, <1>6 DEF Sandbox!NextSandbox

LEMMA StaysDoubled ==
    ASSUME [Sandbox!NextSandbox]_sandboxVars, doubled
    PROVE  doubled'
BY DEF Sandbox!NextSandbox, sandboxVars, Sandbox!Verify, Sandbox!Begin, Sandbox!HasSignature,
       Sandbox!Validate, Sandbox!Add, Sandbox!Serve, Sandbox!StoreThrows, Sandbox!SetRecord,
       Sandbox!Push, Sandbox!CallbackThrows, Sandbox!Pop, Sandbox!Get, Sandbox!Find, Sandbox!Send,
       Sandbox!Confirm, Sandbox!WriteRefunded, Sandbox!WriteFailed, Sandbox!RunStep,
       Sandbox!verifierVars, Sandbox!RunThrows, Sandbox!Tick, Sandbox!RestartSandbox,
       Sandbox!Restart

\* For every age that payloads may have, every time that signatures are remembered and
\* any number of calls that take turns: a payment buys one call, another one for every
\* time that its signature expires while the payload is young enough, and, from memory,
\* another one for every restart.
THEOREM PaymentsBuyAtMost == ServicesSpec => []BuysAtMost
<1> DEFINE Inv == part = "sandbox" => SandboxTypes /\ (doubled \/ SoldInTurn)
<1>1. ServicesInit => Inv
  <2> SUFFICES ASSUME Sandbox!InitSandbox PROVE SandboxTypes /\ SoldInTurn
    BY DEF ServicesInit
  <2>1. SandboxTypes
    BY DEF Sandbox!InitSandbox, Sandbox!Init, SandboxTypes
  <2>2. Sold = 0 /\ Span \in Nat /\ MaxPayloadAge \in Nat /\ Ttl \in Nat
    BY <2>1, SpanAndSold DEF Sandbox!InitSandbox, Sandbox!Init, Sold
  <2>3. Sold * Span = 0
    BY <2>2
  <2> QED
    BY <2>1, <2>2, <2>3 DEF SoldInTurn, SoldInRedis, SoldFromMemory, Sandbox!InitSandbox,
          Sandbox!Init
<1>2. Inv /\ [ServicesNext]_servicesVars => Inv'
  <2>1. [ServicesNext]_servicesVars /\ part = "sandbox" => [Sandbox!NextSandbox]_sandboxVars
    BY DEF ServicesNext, servicesVars
  <2>2. [ServicesNext]_servicesVars => part' = part
    BY DEF ServicesNext, servicesVars
  <2> QED
    BY <2>1, <2>2, SandboxTyped, SoldKept, StaysDoubled
<1>3. Inv => BuysAtMost
  <2> SUFFICES ASSUME SandboxTypes, SoldInTurn, ~doubled PROVE Sandbox!BuysAtMost
    BY DEF BuysAtMost, Sandbox!BuysAtMost
  <2>1. /\ Span \in Nat \ {0} /\ Sold \in Int /\ MaxPayloadAge \in Nat /\ Sold * Span \in Int
        /\ accepted \in Nat /\ checkFaults \in Nat /\ store \in {"redis", "memory"}
    BY SpanAndSold DEF SandboxTypes
  <2>2. CASE store = "redis"
    <3>1. Sold = accepted /\ Span = Ttl /\ Sold * Span <= MaxPayloadAge + 2 * Span
      BY <2>2 DEF Sold, Span, SoldInTurn, SoldInRedis
    <3>2. Sold <= 2 + MaxPayloadAge \div Span
      BY <2>1, <3>1, Quotient
    <3> QED
      BY <2>2, <3>1, <3>2 DEF Sandbox!BuysAtMost
  <2>3. CASE store = "memory"
    <3>1. Sold = accepted - checkFaults /\ Span = Ttl + 1 /\ Sold * Span <= MaxPayloadAge + 1 * Span
      BY <2>1, <2>3 DEF Sold, Span, SoldInTurn, SoldFromMemory
    <3>2. Sold <= 1 + MaxPayloadAge \div Span
      BY <2>1, <3>1, Quotient
    <3>3. MaxPayloadAge \div Span \in Int
      BY <2>1
    <3> QED
      BY <2>1, <2>3, <3>1, <3>2, <3>3 DEF Sandbox!BuysAtMost
  <2> QED
    BY <2>1, <2>2, <2>3
<1> QED
  BY <1>1, <1>2, <1>3, PTL DEF ServicesSpec

-----------------------------------------------------------------------------
\* Governance: what a set of votes comes to depends on these votes only.

IsVoteSum(vs, S, sum) ==
    sum = [s \in SUBSET S |-> IF s = {} THEN 0 ELSE vs[Pick(s)].power + sum[s \ {Pick(s)}]]
OfTypes(vs, V, types) == {v \in V : vs[v].type \in types}
VoteSum(vs, S) == (CHOOSE sum : IsVoteSum(vs, S, sum))[S]
PowerOf(vs, V, types) == VoteSum(vs, OfTypes(vs, V, types))
CountIn(vs, V) == [total |-> PowerOf(vs, V, {"FOR", "AGAINST", "ABSTAIN"}),
                   for |-> PowerOf(vs, V, {"FOR"}),
                   against |-> PowerOf(vs, V, {"AGAINST"})]

LEMMA CountIsIn ==
    ASSUME NEW V
    PROVE  /\ Governance!CountOf(V) = CountIn(votes, V)
           /\ Governance!CountOf(V)' = CountIn(votes', V)
<1>1. ASSUME NEW types
      PROVE  /\ Governance!Power(V, types) = PowerOf(votes, V, types)
             /\ Governance!Power(V, types)' = PowerOf(votes', V, types)
  BY DEF Governance!Power, Governance!MapThenSumSet, Governance!MapThenFoldSet, PowerOf, VoteSum,
         IsVoteSum, OfTypes, Pick
<1> QED
  BY <1>1 DEF Governance!CountOf, Governance!VoteType, CountIn

LEMMA VoteSumIs ==
    ASSUME NEW vs, NEW S, IsFiniteSet(S)
    PROVE  VoteSum(vs, S) = SumFunctionOnSet([v \in S |-> vs[v].power], S)
<1> DEFINE f == [v \in S |-> vs[v].power]
<1>1. ASSUME NEW sum PROVE IsVoteSum(vs, S, sum) <=> IsSumOf(f, S, sum)
  <2>1. ASSUME NEW s \in SUBSET S, s # {} PROVE f[Pick(s)] = vs[Pick(s)].power
    BY <2>1 DEF Pick
  <2>2. [s \in SUBSET S |-> IF s = {} THEN 0 ELSE vs[Pick(s)].power + sum[s \ {Pick(s)}]]
          = [s \in SUBSET S |-> IF s = {} THEN 0 ELSE f[Pick(s)] + sum[s \ {Pick(s)}]]
    <3> HIDE DEF f
    <3> QED
      BY <2>1
  <2> HIDE DEF f
  <2> QED
    BY <2>2 DEF IsVoteSum, IsSumOf
<1> HIDE DEF f
<1> DEFINE a == CHOOSE sum : IsVoteSum(vs, S, sum)
           b == CHOOSE sum : IsSumOf(f, S, sum)
<1>2. \E sum : IsSumOf(f, S, sum)
  BY SumExists
<1>3. IsVoteSum(vs, S, a)
  BY <1>1, <1>2
<1>4. IsSumOf(f, S, a) /\ IsSumOf(f, S, b)
  BY <1>1, <1>2, <1>3
<1>5. a[S] = b[S]
  <2> HIDE DEF a, b
  <2> QED
    BY <1>4, SumsAgree
<1> QED
  BY <1>5, SumIsChosen DEF VoteSum, f

LEMMA CountsWhatTheyAre ==
    ASSUME NEW V, IsFiniteSet(V), NEW vs, NEW ws, \A v \in V : ws[v] = vs[v]
    PROVE  CountIn(ws, V) = CountIn(vs, V)
<1>1. ASSUME NEW types PROVE PowerOf(ws, V, types) = PowerOf(vs, V, types)
  <2> DEFINE S == OfTypes(vs, V, types)
  <2>1. OfTypes(ws, V, types) = S /\ S \subseteq V /\ IsFiniteSet(S)
    BY FS_Subset DEF OfTypes
  <2>2. [v \in S |-> ws[v].power] = [v \in S |-> vs[v].power]
    BY <2>1
  <2> HIDE DEF S
  <2> QED
    BY <2>1, <2>2, VoteSumIs DEF PowerOf, S
<1> QED
  BY <1>1 DEF CountIn

LEMMA NothingCast ==
    ASSUME NEW vs
    PROVE  CountIn(vs, {}) = Governance!NoTally
<1>1. ASSUME NEW types PROVE PowerOf(vs, {}, types) = 0
  <2>1. OfTypes(vs, {}, types) = {} /\ IsFiniteSet({})
    BY FS_EmptySet DEF OfTypes
  <2>2. VoteSum(vs, {}) = SumFunctionOnSet([v \in {} |-> vs[v].power], {})
    BY <2>1, VoteSumIs
  <2>3. SumFunctionOnSet([v \in {} |-> vs[v].power], {}) = 0
    BY <2>1, SumUnfold
  <2> QED
    BY <2>1, <2>2, <2>3 DEF PowerOf
<1> QED
  BY <1>1 DEF CountIn, Governance!NoTally

\* What the proposal holds, and what a request is about to write, is the sum of some of
\* the votes; what has passed, or is about to, was carried by some of them.
SomeOf(tally) == \E V \in SUBSET Governance!Cast : tally = CountIn(votes, V)
Carried == \E V \in SUBSET Governance!Cast : Governance!Passed(CountIn(votes, V))
Carrying == {"PASSED", "execute", "resolve", "slash", "executed"}

BallotShape ==
    /\ DOMAIN proposal = {"status", "tally"} /\ DOMAIN votes = Others /\ DOMAIN ballot = Workers
    /\ proposal.status \in {"ACTIVE", "PASSED", "REJECTED", "EXECUTED"}
    /\ slashed \in Nat /\ voteFaults \in Nat
    /\ \A r \in Workers : ballot[r].pc = "vote" =>
          ballot[r].voter \in Others /\ ballot[r].vote \in Governance!Vote

CarriedInv ==
    /\ BallotShape
    /\ SomeOf(proposal.tally)
    /\ \A r \in Workers : /\ ballot[r].pc = "tally" => SomeOf(ballot[r].tally)
                          /\ ballot[r].pc \in Carrying => Carried
    /\ proposal.status \in {"PASSED", "EXECUTED"} \/ slashed > 0 => Carried

\* A step that leaves the votes that were cast as they are
LEMMA VotesStay ==
    ASSUME \A v \in Governance!Cast : v \in Governance!Cast' /\ votes'[v] = votes[v]
    PROVE  /\ \A V \in SUBSET Governance!Cast :
                 V \in SUBSET Governance!Cast' /\ CountIn(votes', V) = CountIn(votes, V)
           /\ Carried => Carried'
           /\ \A tally : (\E V \in SUBSET Governance!Cast : tally = CountIn(votes, V)) =>
                 \E V \in SUBSET Governance!Cast' : tally = CountIn(votes', V)
<1>1. ASSUME NEW V \in SUBSET Governance!Cast
      PROVE  V \in SUBSET Governance!Cast' /\ CountIn(votes', V) = CountIn(votes, V)
  <2>1. IsFiniteSet(V)
    BY ServicesAssumption, FS_Subset DEF Governance!Cast
  <2> QED
    BY <2>1, CountsWhatTheyAre
<1>2. Carried => Carried'
  BY <1>1 DEF Carried, Governance!Passed
<1> QED
  BY <1>1, <1>2 DEF SomeOf

\* A request moves to a point where it carries nothing, or what is carried already.
BallotMoves(r) ==
    /\ DOMAIN ballot' = Workers
    /\ \A q \in Workers \ {r} : ballot'[q] = ballot[q]

LEMMA CarriedKept ==
    ASSUME CarriedInv, [Governance!Next]_governanceVars
    PROVE  CarriedInv'
<1> USE DEF Governance!At, Governance!Goto, Governance!NoRequest, Governance!Status
<1>1. CASE UNCHANGED governanceVars
  BY <1>1 DEF governanceVars, CarriedInv, BallotShape, SomeOf, Carried, Governance!Cast
<1>2. CASE Governance!Expire
  BY <1>2 DEF Governance!Expire, CarriedInv, BallotShape, SomeOf, Carried, Governance!Cast
<1>3. ASSUME NEW r \in Workers,
             \/ \E v \in Others, vote \in Governance!Vote : Governance!BeginVote(r, v, vote)
             \/ Governance!BeginClose(r) \/ Governance!Decide(r) \/ Governance!Execute(r)
             \/ Governance!Resolve(r) \/ Governance!Throw(r)
      PROVE  CarriedInv'
  <2>1. UNCHANGED <<proposal, votes, slashed>> /\ BallotMoves(r)
        /\ voteFaults' \in {voteFaults, voteFaults + 1}
    BY <1>3 DEF Governance!BeginVote, Governance!BeginClose, Governance!Begin, Governance!Decide,
          Governance!Execute, Governance!Resolve, Governance!Throw, CarriedInv, BallotShape,
          BallotMoves
  <2>2. /\ ballot'[r].pc # "tally"
        /\ ballot'[r].pc = "vote" => ballot'[r].voter \in Others
              /\ ballot'[r].vote \in Governance!Vote
    BY <1>3 DEF Governance!BeginVote, Governance!BeginClose, Governance!Begin, Governance!Decide,
          Governance!Execute, Governance!Resolve, Governance!Throw, CarriedInv, BallotShape
  <2>3. ballot'[r].pc \in Carrying => Carried
    <3>1. ballot'[r].pc \in Carrying => ballot[r].pc \in Carrying
              \/ Governance!Passed(proposal.tally)
      BY <1>3 DEF Governance!BeginVote, Governance!BeginClose, Governance!Begin, Governance!Decide,
            Governance!Execute, Governance!Resolve, Governance!Throw, CarriedInv, BallotShape,
            Carrying
    <3> QED
      BY <3>1 DEF CarriedInv, SomeOf, Carried
  <2>4. BallotShape'
    BY <2>1, <2>2 DEF CarriedInv, BallotShape, BallotMoves
  <2>5. Governance!Cast' = Governance!Cast
    BY <2>1 DEF Governance!Cast
  <2>6. (Carried' <=> Carried) /\ SomeOf(proposal.tally)'
        /\ \A q \in Workers \ {r} : ballot[q].pc = "tally" => SomeOf(ballot[q].tally)'
    BY <2>1, <2>5 DEF CarriedInv, Carried, SomeOf, BallotMoves
  <2> QED
    BY <2>1, <2>2, <2>3, <2>4, <2>6 DEF CarriedInv, BallotMoves
<1>4. ASSUME NEW r \in Workers, Governance!CreateVote(r)
      PROVE  CarriedInv'
  <2> DEFINE v == ballot[r].voter
  <2>1. /\ UNCHANGED <<proposal, slashed, voteFaults>> /\ BallotMoves(r)
        /\ ballot'[r].pc \in {"idle", "count"}
        /\ v \in Others /\ ballot[r].vote \in Governance!Vote
        /\ votes' = votes \/ (votes[v] = Governance!NotVoted
                                /\ votes' = [votes EXCEPT ![v] = ballot[r].vote])
    BY <1>4 DEF Governance!CreateVote, CarriedInv, BallotShape, BallotMoves
  <2>2. \A u \in Governance!Cast : u \in Governance!Cast' /\ votes'[u] = votes[u]
    BY <2>1 DEF Governance!Cast, CarriedInv, BallotShape
  <2>3. BallotShape'
    BY <2>1 DEF CarriedInv, BallotShape, BallotMoves
  <2>4. /\ Carried => Carried'
        /\ SomeOf(proposal.tally)'
        /\ \A q \in Workers \ {r} : ballot[q].pc = "tally" => SomeOf(ballot[q].tally)'
    BY <2>1, <2>2, VotesStay DEF CarriedInv, SomeOf, BallotMoves
  <2> QED
    BY <2>1, <2>3, <2>4 DEF CarriedInv, BallotMoves, Carrying
<1>5. ASSUME NEW r \in Workers, Governance!Count(r)
      PROVE  CarriedInv'
  <2>1. /\ UNCHANGED <<proposal, votes, slashed, voteFaults>> /\ BallotMoves(r)
        /\ ballot'[r].pc = "tally" /\ ballot'[r].tally = CountIn(votes, Governance!Cast)
    BY <1>5, CountIsIn DEF Governance!Count, CarriedInv, BallotShape, BallotMoves
  <2>2. BallotShape'
    BY <2>1 DEF CarriedInv, BallotShape, BallotMoves
  <2>3. Governance!Cast' = Governance!Cast
    BY <2>1 DEF Governance!Cast
  <2>4. /\ Carried' <=> Carried
        /\ SomeOf(proposal.tally)' /\ SomeOf(ballot[r].tally)'
        /\ \A q \in Workers \ {r} : ballot[q].pc = "tally" => SomeOf(ballot[q].tally)'
    BY <2>1, <2>3 DEF CarriedInv, Carried, SomeOf, BallotMoves
  <2> QED
    BY <2>1, <2>2, <2>4 DEF CarriedInv, BallotMoves, Carrying
<1>6. ASSUME NEW r \in Workers,
             \/ Governance!WriteTally(r) \/ Governance!Close(r) \/ Governance!Slash(r)
             \/ Governance!Executed(r)
      PROVE  CarriedInv'
  <2>1. /\ UNCHANGED <<votes, voteFaults>> /\ BallotMoves(r)
        /\ ballot'[r].pc \in {"idle", "execute", "executed"}
        /\ DOMAIN proposal' = {"status", "tally"}
        /\ slashed' \in {slashed, slashed + 1}
    BY <1>6 DEF Governance!WriteTally, Governance!Close, Governance!Slash, Governance!Executed,
          CarriedInv, BallotShape, BallotMoves
  <2>2. /\ proposal'.status = proposal.status \/ proposal'.status = "REJECTED"
           \/ (proposal'.status \in {"PASSED", "EXECUTED"} /\ ballot[r].pc \in Carrying)
        /\ slashed' = slashed \/ ballot[r].pc \in Carrying
        /\ ballot'[r].pc \in Carrying => ballot[r].pc \in Carrying
    BY <1>6 DEF Governance!WriteTally, Governance!Close, Governance!Slash, Governance!Executed,
          CarriedInv, BallotShape, Carrying
  <2>3. proposal'.tally = proposal.tally
           \/ (ballot[r].pc = "tally" /\ proposal'.tally = ballot[r].tally)
    BY <1>6 DEF Governance!WriteTally, Governance!Close, Governance!Slash, Governance!Executed,
          CarriedInv, BallotShape
  <2>4. BallotShape'
    BY <2>1, <2>2 DEF CarriedInv, BallotShape, BallotMoves
  <2>5. Governance!Cast' = Governance!Cast
    BY <2>1 DEF Governance!Cast
  <2>6. /\ Carried' <=> Carried
        /\ SomeOf(proposal.tally)'
        /\ \A q \in Workers \ {r} : ballot[q].pc = "tally" => SomeOf(ballot[q].tally)'
    BY <2>1, <2>3, <2>5 DEF CarriedInv, Carried, SomeOf, BallotMoves
  <2>7. proposal'.status \in {"PASSED", "EXECUTED"} \/ slashed' > 0 => Carried
    BY <2>2 DEF CarriedInv
  <2> QED
    BY <2>1, <2>2, <2>4, <2>6, <2>7 DEF CarriedInv, BallotMoves
<1> QED
  BY <1>1, <1>2, <1>3, <1>4, <1>5, <1>6 DEF Governance!Next

\* VotesDecide: while requests take turns and the database does not fail. The proposal's
\* sums are those of all votes except between a vote and the write of its count, and what
\* the request under way has decided is what they decide.
AllCast == CountIn(votes, Governance!Cast)

BallotInTurn(r) ==
    LET pc == ballot[r].pc
    IN  /\ pc \in {"idle", "vote", "count", "tally", "close", "REJECTED"} \cup Carrying
        /\ pc \in {"vote", "count", "tally", "close", "PASSED", "REJECTED"} =>
              proposal.status = "ACTIVE" /\ slashed = 0
        /\ pc \in {"vote", "close", "PASSED", "REJECTED", "execute", "resolve", "slash",
                  "executed"} =>
              proposal.tally = AllCast
        /\ pc = "tally" => ballot[r].tally = AllCast
        /\ pc = "REJECTED" => ~Governance!Passed(AllCast)
        /\ pc \in Carrying => Governance!Passed(AllCast)
        /\ pc \in {"execute", "resolve", "slash", "executed"} =>
              proposal.status = "PASSED" /\ slashed = IF pc = "executed" THEN 1 ELSE 0

Decided ==
    /\ proposal.tally = AllCast
    /\ proposal.status \in {"ACTIVE", "REJECTED", "EXECUTED"}
    /\ proposal.status = "REJECTED" => ~Governance!Passed(AllCast)
    /\ proposal.status = "EXECUTED" => Governance!Passed(AllCast)
    /\ slashed = IF proposal.status = "EXECUTED" THEN 1 ELSE 0

VotesInTurn ==
    /\ \A q, r \in Workers : q # r => ballot[q].pc = "idle" \/ ballot[r].pc = "idle"
    /\ \A r \in Workers : BallotInTurn(r)
    /\ (\A r \in Workers : ballot[r].pc = "idle") => Decided

\* The request that makes the step is the only one under way.
LEMMA OneDecides ==
    ASSUME BallotShape, BallotShape', VotesInTurn, NEW r \in Workers, BallotMoves(r),
           \/ ballot[r].pc # "idle"
           \/ \A q \in Workers \ {r} : ballot[q].pc = "idle",
           BallotInTurn(r)', ballot'[r].pc = "idle" => Decided'
    PROVE  VotesInTurn'
<1>1. \A q \in Workers \ {r} : ballot[q].pc = "idle" /\ ballot'[q].pc = "idle"
  BY DEF VotesInTurn, BallotMoves
<1>2. \A q \in Workers \ {r} : BallotInTurn(q)'
  BY <1>1 DEF BallotInTurn, Carrying
<1> QED
  BY <1>1, <1>2 DEF VotesInTurn

LEMMA VotesTurn ==
    ASSUME BallotShape, BallotShape', VotesInTurn, [Governance!Next]_governanceVars,
           ~crossed', voteFaults' = 0
    PROVE  VotesInTurn'
<1> USE DEF Governance!At, Governance!Goto, Governance!NoRequest, Governance!Status
<1>0. UNCHANGED votes => UNCHANGED AllCast
  BY DEF AllCast, Governance!Cast
<1>1. CASE UNCHANGED governanceVars
  BY <1>0, <1>1 DEF governanceVars, VotesInTurn, BallotInTurn, Decided
<1>2. CASE Governance!Expire
  BY <1>0, <1>2 DEF Governance!Expire, VotesInTurn, BallotInTurn, Decided
<1>3. ASSUME NEW r \in Workers, NEW next,
             next.pc = "vote" \/ next.pc = "close", Governance!Begin(r, next)
      PROVE  VotesInTurn'
  <2>1. /\ UNCHANGED <<proposal, votes, slashed>> /\ BallotMoves(r)
        /\ ballot'[r] = next /\ proposal.status = "ACTIVE"
        /\ \A q \in Workers : ballot[q].pc = "idle"
    BY <1>3 DEF Governance!Begin, BallotShape, BallotMoves
  <2>2. BallotInTurn(r)'
    BY <1>0, <1>3, <2>1 DEF VotesInTurn, Decided, BallotInTurn, Carrying
  <2> QED
    BY <1>3, <2>1, <2>2, OneDecides
<1>4. ASSUME NEW r \in Workers,
             \/ \E v \in Others, vote \in Governance!Vote : Governance!BeginVote(r, v, vote)
             \/ Governance!BeginClose(r)
      PROVE  VotesInTurn'
  BY <1>3, <1>4 DEF Governance!BeginVote, Governance!BeginClose
<1>5. ASSUME NEW r \in Workers, Governance!CreateVote(r)
      PROVE  VotesInTurn'
  <2>1. /\ ballot[r].pc = "vote" /\ UNCHANGED <<proposal, slashed>> /\ BallotMoves(r)
        /\ \/ ballot'[r].pc = "idle" /\ UNCHANGED votes
           \/ ballot'[r].pc = "count"
    BY <1>5 DEF Governance!CreateVote, BallotShape, BallotMoves
  <2>2. BallotInTurn(r)' /\ (ballot'[r].pc = "idle" => Decided')
    BY <1>0, <2>1 DEF VotesInTurn, Decided, BallotInTurn, Carrying
  <2> QED
    BY <2>1, <2>2, OneDecides
<1>6. ASSUME NEW r \in Workers, Governance!Count(r) \/ Governance!WriteTally(r)
      PROVE  VotesInTurn'
  <2>1. /\ UNCHANGED <<votes, slashed>> /\ BallotMoves(r)
        /\ \/ /\ ballot[r].pc = "count" /\ UNCHANGED proposal
              /\ ballot'[r].pc = "tally" /\ ballot'[r].tally = AllCast
           \/ /\ ballot[r].pc = "tally" /\ proposal'.status = proposal.status
              /\ proposal'.tally = ballot[r].tally /\ ballot'[r].pc = "idle"
    <3>1. AllCast = Governance!CountOf(Governance!Cast)
      BY CountIsIn DEF AllCast
    <3>2. CASE Governance!Count(r)
      BY <3>1, <3>2 DEF Governance!Count, BallotShape, BallotMoves
    <3>3. CASE Governance!WriteTally(r)
      BY <3>3 DEF Governance!WriteTally, BallotShape, BallotMoves
    <3> QED
      BY <1>6, <3>2, <3>3
  <2>2. BallotInTurn(r)' /\ (ballot'[r].pc = "idle" => Decided')
    BY <1>0, <2>1 DEF VotesInTurn, Decided, BallotInTurn, Carrying
  <2> QED
    BY <2>1, <2>2, OneDecides
<1>7. ASSUME NEW r \in Workers, Governance!Decide(r)
      PROVE  VotesInTurn'
  <2>1. /\ ballot[r].pc = "close" /\ UNCHANGED <<proposal, votes, slashed>> /\ BallotMoves(r)
        /\ ballot'[r].pc = IF proposal.status # "ACTIVE" THEN "idle"
                           ELSE IF Governance!Passed(proposal.tally) THEN "PASSED"
                           ELSE "REJECTED"
    BY <1>7 DEF Governance!Decide, BallotShape, BallotMoves
  <2>2. BallotInTurn(r)' /\ ballot'[r].pc # "idle"
    BY <1>0, <2>1 DEF VotesInTurn, BallotInTurn, Carrying
  <2> QED
    BY <2>1, <2>2, OneDecides
<1>8. ASSUME NEW r \in Workers, Governance!Close(r) \/ Governance!Executed(r)
      PROVE  VotesInTurn'
  <2>1. /\ UNCHANGED <<votes, slashed>> /\ BallotMoves(r) /\ proposal'.tally = proposal.tally
        /\ \/ /\ ballot[r].pc = "PASSED" /\ proposal'.status = "PASSED" /\ ballot'[r].pc = "execute"
           \/ /\ ballot[r].pc = "REJECTED" /\ proposal'.status = "REJECTED"
              /\ ballot'[r].pc = "idle"
           \/ /\ ballot[r].pc = "executed" /\ proposal'.status = "EXECUTED"
              /\ ballot'[r].pc = "idle"
    BY <1>8 DEF Governance!Close, Governance!Executed, BallotShape, BallotMoves
  <2>2. BallotInTurn(r)' /\ (ballot'[r].pc = "idle" => Decided')
    BY <1>0, <2>1 DEF VotesInTurn, Decided, BallotInTurn, Carrying
  <2> QED
    BY <2>1, <2>2, OneDecides
<1>9. ASSUME NEW r \in Workers,
             Governance!Execute(r) \/ Governance!Resolve(r) \/ Governance!Slash(r)
      PROVE  VotesInTurn'
  <2>1. BallotInTurn(r)
    BY DEF VotesInTurn
  <2>2. /\ UNCHANGED <<proposal, votes>> /\ BallotMoves(r)
        /\ \/ ballot[r].pc = "execute" /\ ballot'[r].pc = "resolve" /\ UNCHANGED slashed
           \/ ballot[r].pc = "resolve" /\ ballot'[r].pc = "slash" /\ UNCHANGED slashed
           \/ ballot[r].pc = "slash" /\ ballot'[r].pc = "executed" /\ slashed' = slashed + 1
    BY <1>9, <2>1 DEF Governance!Execute, Governance!Resolve, Governance!Slash, BallotShape,
          BallotMoves, BallotInTurn
  <2>3. BallotInTurn(r)' /\ ballot'[r].pc # "idle"
    BY <1>0, <2>1, <2>2 DEF BallotInTurn, Carrying
  <2> QED
    BY <2>2, <2>3, OneDecides
<1>10. ASSUME NEW r \in Workers, Governance!Throw(r)
       PROVE  FALSE
  BY <1>10 DEF Governance!Throw, BallotShape
<1> QED
  BY <1>1, <1>2, <1>4, <1>5, <1>6, <1>7, <1>8, <1>9, <1>10 DEF Governance!Next

LEMMA CrossedStays ==
    ASSUME BallotShape, [Governance!Next]_governanceVars
    PROVE  crossed \/ voteFaults > 0 => crossed' \/ voteFaults' > 0
<1>1. crossed => crossed'
  BY DEF Governance!Next, governanceVars, Governance!Expire, Governance!BeginVote,
         Governance!Begin, Governance!CreateVote, Governance!Count, Governance!WriteTally,
         Governance!BeginClose, Governance!Decide, Governance!Close, Governance!Execute,
         Governance!Resolve, Governance!Slash, Governance!Executed, Governance!Throw
<1>2. voteFaults' = voteFaults \/ voteFaults' = voteFaults + 1
  BY DEF Governance!Next, governanceVars, Governance!Expire, Governance!BeginVote,
         Governance!Begin, Governance!CreateVote, Governance!Count, Governance!WriteTally,
         Governance!BeginClose, Governance!Decide, Governance!Close, Governance!Execute,
         Governance!Resolve, Governance!Slash, Governance!Executed, Governance!Throw
<1> QED
  BY <1>1, <1>2 DEF BallotShape

\* For any number of requests, voters and powers: whatever overlaps or fails, a proposal
\* passes, and its agent is slashed, only when some of the votes that were cast carry it;
\* and while requests take turns and the database does not fail, all votes decide.
THEOREM CastVotesDecide == ServicesSpec => []VotesDecide
<1> DEFINE Inv == part = "governance" => CarriedInv /\ (crossed \/ voteFaults > 0 \/ VotesInTurn)
<1>1. ServicesInit => Inv
  <2> SUFFICES ASSUME Governance!Init PROVE CarriedInv /\ VotesInTurn
    BY DEF ServicesInit
  <2>1. BallotShape
    BY DEF Governance!Init, Governance!NoRequest, BallotShape
  <2>2. Governance!Cast = {}
    BY DEF Governance!Init, Governance!Cast
  <2>3. AllCast = Governance!NoTally
    BY <2>2, NothingCast DEF AllCast
  <2>4. SomeOf(proposal.tally)
    BY <2>2, <2>3 DEF SomeOf, AllCast, Governance!Init
  <2>5. CarriedInv
    BY <2>1, <2>4 DEF CarriedInv, Governance!Init, Governance!NoRequest, Carrying
  <2> QED
    BY <2>3, <2>5 DEF VotesInTurn, BallotInTurn, Decided, Governance!Init, Governance!NoRequest,
          Carrying
<1>2. Inv /\ [ServicesNext]_servicesVars => Inv'
  <2>1. [ServicesNext]_servicesVars /\ part = "governance" => [Governance!Next]_governanceVars
    BY DEF ServicesNext, servicesVars
  <2>2. [ServicesNext]_servicesVars => part' = part
    BY DEF ServicesNext, servicesVars
  <2> SUFFICES ASSUME CarriedInv, crossed \/ voteFaults > 0 \/ VotesInTurn,
                      [Governance!Next]_governanceVars
               PROVE  CarriedInv' /\ (crossed' \/ voteFaults' > 0 \/ VotesInTurn')
    BY <2>1, <2>2
  <2>3. CarriedInv' /\ BallotShape /\ BallotShape'
    BY CarriedKept DEF CarriedInv
  <2>4. CASE crossed \/ voteFaults > 0
    BY <2>3, <2>4, CrossedStays
  <2>5. CASE VotesInTurn
    <3>1. voteFaults' > 0 \/ voteFaults' = 0
      BY <2>3 DEF BallotShape
    <3> QED
      BY <2>3, <2>5, <3>1, VotesTurn
  <2> QED
    BY <2>4, <2>5
<1>3. Inv => VotesDecide
  <2> SUFFICES ASSUME CarriedInv, crossed \/ voteFaults > 0 \/ VotesInTurn
               PROVE  Governance!CarriedBySome /\ Governance!VotesDecide
    BY DEF VotesDecide
  <2>1. Governance!CarriedBySome
    BY CountIsIn DEF CarriedInv, Carried, Governance!CarriedBySome
  <2>2. ASSUME VotesInTurn
        PROVE  /\ proposal.status # "ACTIVE" =>
                     (proposal.status \in {"PASSED", "EXECUTED"} <=> Governance!Passed(AllCast))
               /\ (\A r \in Workers : ballot[r].pc = "idle") => Decided
    <3>1. CASE \A r \in Workers : ballot[r].pc = "idle"
      BY <2>2, <3>1 DEF VotesInTurn, Decided
    <3>2. ASSUME NEW r \in Workers, ballot[r].pc # "idle"
          PROVE  proposal.status = "ACTIVE" \/
                     (proposal.status = "PASSED" /\ Governance!Passed(AllCast))
      BY <2>2, <3>2 DEF VotesInTurn, BallotInTurn, Carrying
    <3> QED
      BY <3>1, <3>2
  <2>3. AllCast = Governance!CountOf(Governance!Cast)
    BY CountIsIn DEF AllCast
  <2> QED
    BY <2>1, <2>2, <2>3 DEF Decided, Governance!VotesDecide, Governance!At
<1> QED
  BY <1>1, <1>2, <1>3, PTL DEF ServicesSpec

-----------------------------------------------------------------------------
\* API keys. What is not revoked, and the keys that are about to be created, are no more
\* than the limit and those that were counted together; a request that has found a key
\* found one that had not been revoked when the request came.

Creating == Among(Workers, [r \in Workers |-> access[r].pc], {"create"})
Unrevoked == Cardinality(Access!Unrevoked)

AccessTypes ==
    /\ apiKey \in [Items -> {"none", "active", "expired", "revoked"}]
    /\ access \in [Workers -> [pc : {"idle", "auth", "touch", "route", "create", "revoke",
                                     "rename"},
                               key : SUBSET Items, before : SUBSET Items]]
    /\ together \in Nat

Extra == IF together > 0 THEN together - 1 ELSE 0

KeysInv ==
    /\ AccessTypes
    /\ Unrevoked + Creating <= MaxKeys + Extra
    /\ \A r \in Workers :
          /\ access[r].before \subseteq Access!Revoked
          /\ access[r].pc = "touch" => access[r].key \cap access[r].before = {}
    /\ ~outdated

LEMMA LargerOf ==
    ASSUME NEW m \in Int, NEW n \in Int
    PROVE  /\ Access!Max({m, n}) \in {m, n}
           /\ Access!Max({m, n}) >= m /\ Access!Max({m, n}) >= n
           /\ Access!Min({m, n}) \in {m, n}
           /\ Access!Min({m, n}) <= m /\ Access!Min({m, n}) <= n
<1>1. \E x \in {m, n} : \A y \in {m, n} : x >= y
  OBVIOUS
<1>2. \E x \in {m, n} : \A y \in {m, n} : x <= y
  OBVIOUS
<1>3. Access!Max({m, n}) = CHOOSE x \in {m, n} : \A y \in {m, n} : x >= y
  BY DEF Access!Max
<1>4. Access!Min({m, n}) = CHOOSE x \in {m, n} : \A y \in {m, n} : x <= y
  BY DEF Access!Min
<1> QED
  BY <1>1, <1>2, <1>3, <1>4

\* The module's cardinality is the library's.
LEMMA SameCardinality ==
    ASSUME NEW S
    PROVE  Access!Cardinality(S) = Cardinality(S)
BY DEF Access!Cardinality, Cardinality

LEMMA KeysCounted ==
    ASSUME AccessTypes
    PROVE  Unrevoked \in Nat /\ Creating \in Nat /\ MaxKeys \in Nat /\ Extra \in Nat
           /\ IsFiniteSet(Access!Unrevoked)
<1>1. IsFiniteSet(Items) /\ MaxKeys \in Nat /\ IsFiniteSet(Workers)
  <2>1. Access!KeysAssumption /\ IsFiniteSet(Workers)
    BY ServicesAssumption
  <2> QED
    BY <2>1 DEF Access!KeysAssumption, Access!IsFiniteSet, IsFiniteSet
<1>2. IsFiniteSet(Access!Unrevoked)
  BY <1>1, FS_Subset DEF Access!Unrevoked
<1>3. Creating \in Nat
  BY <1>1, AmongType DEF Creating
<1> QED
  BY <1>1, <1>2, <1>3, FS_CardinalityType DEF Unrevoked, Extra, AccessTypes

\* A step of one request to a point where it does not create
LEMMA CreatesLess ==
    ASSUME AccessTypes, AccessTypes', NEW r \in Workers,
           \A q \in Workers \ {r} : access'[q] = access[q],
           access'[r].pc # "create"
    PROVE  /\ Creating' = Creating - (IF access[r].pc = "create" THEN 1 ELSE 0)
           /\ Creating \in Nat /\ Creating' \in Nat
<1> DEFINE f == [q \in Workers |-> access[q].pc]
           g == [q \in Workers |-> access'[q].pc]
<1>1. /\ Among(Workers, f, {"create"}) \in Nat /\ Among(Workers, g, {"create"}) \in Nat
      /\ Among(Workers, g, {"create"}) = Among(Workers, f, {"create"})
           + (Weight(g[r], {"create"}) - Weight(f[r], {"create"}))
  <2>1. \A q \in Workers \ {r} : g[q] = f[q]
    OBVIOUS
  <2> HIDE DEF f, g
  <2> QED
    BY <2>1, AmongMoves, ServicesAssumption
<1>2. /\ Weight(g[r], {"create"}) = 0
      /\ Weight(f[r], {"create"}) = IF access[r].pc = "create" THEN 1 ELSE 0
  BY DEF Weight
<1>3. Creating = Among(Workers, f, {"create"}) /\ Creating' = Among(Workers, g, {"create"})
  BY DEF Creating
<1> HIDE DEF f, g
<1> QED
  BY <1>1, <1>2, <1>3

LEMMA CreatesMore ==
    ASSUME AccessTypes, AccessTypes', NEW r \in Workers,
           \A q \in Workers \ {r} : access'[q] = access[q],
           access[r].pc = "route", access'[r].pc = "create"
    PROVE  Creating' = Creating + 1 /\ Creating \in Nat
<1> DEFINE f == [q \in Workers |-> access[q].pc]
           g == [q \in Workers |-> access'[q].pc]
<1>1. /\ Among(Workers, f, {"create"}) \in Nat /\ Among(Workers, g, {"create"}) \in Nat
      /\ Among(Workers, g, {"create"}) = Among(Workers, f, {"create"})
           + (Weight(g[r], {"create"}) - Weight(f[r], {"create"}))
  <2>1. \A q \in Workers \ {r} : g[q] = f[q]
    OBVIOUS
  <2> HIDE DEF f, g
  <2> QED
    BY <2>1, AmongMoves, ServicesAssumption
<1>2. Weight(g[r], {"create"}) = 1 /\ Weight(f[r], {"create"}) = 0
  BY DEF Weight
<1>3. Creating = Among(Workers, f, {"create"}) /\ Creating' = Among(Workers, g, {"create"})
  BY DEF Creating
<1> HIDE DEF f, g
<1> QED
  BY <1>1, <1>2, <1>3

\* A request that moves on and leaves the keys alone
LEMMA KeysAlone ==
    ASSUME KeysInv, AccessTypes', NEW r \in Workers, UNCHANGED <<apiKey, together>>, ~outdated',
           \A q \in Workers \ {r} : access'[q] = access[q],
           access'[r].pc # "create",
           access'[r].before \subseteq Access!Revoked,
           access'[r].pc = "touch" => access'[r].key \cap access'[r].before = {}
    PROVE  KeysInv'
<1>1. Creating' <= Creating /\ Creating \in Nat /\ Creating' \in Nat
  BY CreatesLess DEF KeysInv
<1>2. Unrevoked' = Unrevoked /\ Extra' = Extra
  BY DEF Unrevoked, Access!Unrevoked, Extra
<1>3. Unrevoked \in Nat /\ MaxKeys \in Nat /\ Extra \in Nat
  BY KeysCounted DEF KeysInv
<1>4. Unrevoked' + Creating' <= MaxKeys + Extra'
  <2>1. Unrevoked + Creating <= MaxKeys + Extra
    BY DEF KeysInv
  <2>2. \A n \in Nat : n <= Creating => Unrevoked + n <= MaxKeys + Extra
    BY <1>1, <1>3, <2>1
  <2> QED
    BY <1>1, <1>2, <2>2
<1>5. Access!Revoked' = Access!Revoked
  BY DEF Access!Revoked
<1> QED
  BY <1>4, <1>5 DEF KeysInv

LEMMA KeysTyped ==
    ASSUME KeysInv, [Access!Next]_accessVars
    PROVE  AccessTypes'
<1> USE DEF Access!At, Access!Goto, Access!Return, Access!NoAccess
<1>1. CASE UNCHANGED accessVars
  BY <1>1 DEF accessVars, KeysInv, AccessTypes
<1>2. ASSUME NEW r \in Workers,
             \/ Access!Begin(r) \/ Access!FindValidKey(r) \/ Access!RefuseSignature(r)
             \/ Access!LetIn(r) \/ Access!Read(r) \/ Access!FindKey(r, "revoke")
             \/ Access!FindKey(r, "rename") \/ Access!RenameKey(r) \/ Access!Throw(r)
      PROVE  AccessTypes'
  BY <1>2 DEF Access!Begin, Access!FindValidKey, Access!RefuseSignature, Access!LetIn,
        Access!Read, Access!FindKey, Access!RenameKey, Access!Throw, Access!Revoked, KeysInv,
        AccessTypes
<1>3. ASSUME NEW r \in Workers, Access!CreateKey(r) \/ Access!RevokeKey(r)
      PROVE  AccessTypes'
  BY <1>3 DEF Access!CreateKey, Access!RevokeKey, KeysInv, AccessTypes
<1>4. ASSUME NEW r \in Workers, Access!CountKeys(r)
      PROVE  AccessTypes'
  <2>1. together' \in Nat
    <3> DEFINE n == 1 + Access!Cardinality({q \in Workers : Access!At(q, "create")})
    <3>1. IsFiniteSet({q \in Workers : Access!At(q, "create")})
      BY ServicesAssumption, FS_Subset
    <3>2. n \in Nat
      BY <3>1, FS_CardinalityType, SameCardinality
    <3>3. together' = together \/ together' = Access!Max({together, n})
      BY <1>4 DEF Access!CountKeys
    <3> HIDE DEF n
    <3>4. n \in Int /\ together \in Int /\ together \in Nat
      BY <3>2 DEF KeysInv, AccessTypes
    <3>5. Access!Max({together, n}) \in {together, n}
      BY <3>4, LargerOf
    <3> QED
      BY <3>2, <3>3, <3>4, <3>5
  <2>2. UNCHANGED apiKey /\ access' \in [Workers -> [pc : {"idle", "auth", "touch", "route",
                          "create", "revoke", "rename"}, key : SUBSET Items, before : SUBSET Items]]
    BY <1>4 DEF Access!CountKeys, KeysInv, AccessTypes
  <2> QED
    BY <2>1, <2>2 DEF KeysInv, AccessTypes
<1>5. ASSUME NEW k \in Items, Access!Expire(k)
      PROVE  AccessTypes'
  BY <1>5 DEF Access!Expire, KeysInv, AccessTypes
<1> QED
  BY <1>1, <1>2, <1>3, <1>4, <1>5 DEF Access!Next

LEMMA KeysKept ==
    ASSUME KeysInv, AccessTypes', [Access!Next]_accessVars
    PROVE  KeysInv'
<1> USE DEF Access!At, Access!Goto, Access!Return, Access!NoAccess
<1>0. /\ Unrevoked \in Nat /\ Creating \in Nat /\ MaxKeys \in Nat /\ Extra \in Nat
      /\ IsFiniteSet(Access!Unrevoked) /\ AccessTypes
  BY KeysCounted DEF KeysInv
<1>1. CASE UNCHANGED accessVars
  BY <1>1 DEF accessVars, KeysInv, Unrevoked, Access!Unrevoked, Access!Revoked, Creating, Extra,
        AccessTypes
<1>2. ASSUME NEW r \in Workers,
             \/ Access!Begin(r) \/ Access!FindValidKey(r) \/ Access!RefuseSignature(r)
             \/ Access!Read(r) \/ Access!FindKey(r, "revoke")
             \/ Access!FindKey(r, "rename") \/ Access!RenameKey(r) \/ Access!Throw(r)
      PROVE  KeysInv'
  <2>1. UNCHANGED <<apiKey, together>> /\ ~outdated' /\ access'[r].pc # "create"
        /\ \A q \in Workers \ {r} : access'[q] = access[q]
    BY <1>2 DEF Access!Begin, Access!FindValidKey, Access!RefuseSignature, Access!Read,
          Access!FindKey, Access!RenameKey, Access!Throw, KeysInv, AccessTypes
  <2>2. access'[r].before \subseteq Access!Revoked
    BY <1>2 DEF Access!Begin, Access!FindValidKey, Access!RefuseSignature, Access!Read,
          Access!FindKey, Access!RenameKey, Access!Throw, KeysInv, AccessTypes
  <2>3. access'[r].pc = "touch" => access'[r].key \cap access'[r].before = {}
    BY <1>2 DEF Access!Begin, Access!FindValidKey, Access!RefuseSignature, Access!Read,
          Access!FindKey, Access!RenameKey, Access!Throw, KeysInv, AccessTypes, Access!Revoked
  <2> QED
    BY <2>1, <2>2, <2>3, KeysAlone
<1>3. ASSUME NEW r \in Workers, Access!LetIn(r)
      PROVE  KeysInv'
  <2>1. /\ UNCHANGED <<apiKey, together>> /\ ~outdated'
        /\ access'[r].pc = "route" /\ access'[r].before = {}
        /\ \A q \in Workers \ {r} : access'[q] = access[q]
    BY <1>3 DEF Access!LetIn, KeysInv, AccessTypes
  <2> QED
    BY <2>1, KeysAlone
<1>4. ASSUME NEW r \in Workers, Access!CountKeys(r)
      PROVE  KeysInv'
  <2> DEFINE n == 1 + Access!Cardinality({q \in Workers : Access!At(q, "create")})
  <2>1. CASE access'[r].pc # "create"
    <3>1. /\ UNCHANGED <<apiKey, together>> /\ ~outdated'
          /\ access'[r].pc = "idle" /\ access'[r].before = {}
          /\ \A q \in Workers \ {r} : access'[q] = access[q]
      BY <1>4, <2>1 DEF Access!CountKeys, KeysInv, AccessTypes
    <3> QED
      BY <3>1, KeysAlone
  <2>2. CASE access'[r].pc = "create"
    <3>1. /\ UNCHANGED <<apiKey, outdated>> /\ access[r].pc = "route"
          /\ access'[r].before = access[r].before
          /\ \A q \in Workers \ {r} : access'[q] = access[q]
          /\ together' = Access!Max({together, n})
          /\ ~(Access!Cardinality(Access!Unrevoked) >= MaxKeys)
      BY <1>4, <2>2 DEF Access!CountKeys, KeysInv, AccessTypes
    <3>2. Creating' = Creating + 1
      BY <1>0, <2>2, <3>1, CreatesMore
    <3>3. n = 1 + Creating
      <4>1. {q \in Workers : access[q].pc = "create"}
              = {q \in Workers : [p \in Workers |-> access[p].pc][q] \in {"create"}}
        OBVIOUS
      <4> QED
        BY <4>1, SameCardinality DEF Creating, Among
    <3>4. together' >= n /\ together' \in Nat
      <4>1. n \in Nat /\ together \in Nat
        BY <1>0, <3>3 DEF AccessTypes
      <4> HIDE DEF n
      <4>2. n \in Int /\ together \in Int
        BY <4>1
      <4>3. Access!Max({together, n}) >= n /\ Access!Max({together, n}) \in {together, n}
        BY <4>2, LargerOf
      <4> QED
        BY <3>1, <4>1, <4>3
    <3>5. Unrevoked < MaxKeys /\ Unrevoked' = Unrevoked
      BY <1>0, <3>1, SameCardinality DEF Unrevoked, Access!Unrevoked
    <3>6. Unrevoked' + Creating' <= MaxKeys + Extra'
      <4> HIDE DEF n
      <4>1. \A m \in Nat : m >= 1 + Creating => m > 0 /\ m - 1 >= Creating /\ m - 1 \in Nat
        BY <1>0
      <4>2. Extra' >= Creating /\ Extra' \in Nat
        BY <3>3, <3>4, <4>1 DEF Extra
      <4>3. \A m \in Nat : m >= Creating => Unrevoked + (Creating + 1) <= MaxKeys + m
        BY <1>0, <3>5
      <4> QED
        BY <3>2, <3>5, <4>2, <4>3
    <3> QED
      BY <2>2, <3>1, <3>6 DEF KeysInv, Access!Revoked
  <2> QED
    BY <2>1, <2>2
<1>5. ASSUME NEW r \in Workers, Access!CreateKey(r)
      PROVE  KeysInv'
  <2>1. PICK k \in Items : apiKey[k] = "none" /\ apiKey' = [apiKey EXCEPT ![k] = "active"]
    BY <1>5 DEF Access!CreateKey
  <2>2. /\ UNCHANGED <<together, outdated>> /\ access[r].pc = "create" /\ access'[r].pc = "idle"
        /\ access'[r].before = {} /\ \A q \in Workers \ {r} : access'[q] = access[q]
    BY <1>5 DEF Access!CreateKey, KeysInv, AccessTypes
  <2>3. Access!Unrevoked' = Access!Unrevoked \cup {k} /\ k \notin Access!Unrevoked
    BY <1>0, <2>1 DEF Access!Unrevoked, AccessTypes
  <2>4. Unrevoked' = Unrevoked + 1
    BY <1>0, <2>3, FS_AddElement DEF Unrevoked
  <2>5. Creating' = Creating - 1 /\ Creating' \in Nat
    BY <1>0, <2>2, CreatesLess
  <2>6. Unrevoked' + Creating' <= MaxKeys + Extra'
    BY <1>0, <2>2, <2>4, <2>5 DEF KeysInv, Extra
  <2>7. Access!Revoked' = Access!Revoked
    BY <1>0, <2>1 DEF Access!Revoked, AccessTypes
  <2> QED
    BY <2>2, <2>6, <2>7 DEF KeysInv
<1>6. ASSUME NEW r \in Workers, Access!RevokeKey(r)
      PROVE  KeysInv'
  <2>1. /\ UNCHANGED <<together, outdated>> /\ access[r].pc = "revoke" /\ access'[r].pc = "idle"
        /\ access'[r].before = {} /\ \A q \in Workers \ {r} : access'[q] = access[q]
        /\ apiKey' = [k \in Items |-> IF k \in access[r].key THEN "revoked" ELSE apiKey[k]]
    BY <1>6 DEF Access!RevokeKey, KeysInv, AccessTypes
  <2>2. Access!Unrevoked' \subseteq Access!Unrevoked /\ Access!Revoked \subseteq Access!Revoked'
    BY <2>1 DEF Access!Unrevoked, Access!Revoked
  <2>3. Unrevoked' <= Unrevoked /\ Unrevoked' \in Nat
    BY <1>0, <2>2, FS_Subset, FS_CardinalityType DEF Unrevoked
  <2>4. Creating' = Creating
    BY <1>0, <2>1, CreatesLess
  <2>5. Unrevoked' + Creating' <= MaxKeys + Extra'
    BY <1>0, <2>1, <2>3, <2>4 DEF KeysInv, Extra
  <2> QED
    BY <2>1, <2>2, <2>5 DEF KeysInv
<1>7. ASSUME NEW k \in Items, Access!Expire(k)
      PROVE  KeysInv'
  <2>1. UNCHANGED <<access, together, outdated>> /\ apiKey[k] = "active"
        /\ apiKey' = [apiKey EXCEPT ![k] = "expired"]
    BY <1>7 DEF Access!Expire
  <2>2. Access!Unrevoked' = Access!Unrevoked /\ Access!Revoked' = Access!Revoked
    BY <1>0, <2>1 DEF Access!Unrevoked, Access!Revoked, AccessTypes
  <2>3. Unrevoked' = Unrevoked /\ Creating' = Creating /\ Extra' = Extra
    BY <2>1, <2>2 DEF Unrevoked, Creating, Extra
  <2> QED
    BY <2>1, <2>2, <2>3 DEF KeysInv
<1> QED
  BY <1>1, <1>2, <1>3, <1>4, <1>5, <1>6, <1>7 DEF Access!Next

LEMMA KeysBegin ==
    ASSUME Access!Init
    PROVE  KeysInv
<1> DEFINE first == CHOOSE i \in Items : TRUE
<1>1. Access!KeysAssumption
  BY ServicesAssumption
<1>2. {first} \subseteq Items /\ Access!Cardinality({first}) <= MaxKeys /\ MaxKeys \in Nat
  BY <1>1 DEF Access!KeysAssumption
<1> HIDE DEF first
<1>3. AccessTypes
  BY DEF Access!Init, Access!NoAccess, AccessTypes
<1>4. Access!Unrevoked = {first}
  BY <1>2 DEF Access!Init, Access!Unrevoked, first
<1>5. Unrevoked <= MaxKeys
  BY <1>2, <1>4, SameCardinality DEF Unrevoked
<1>6. Creating = 0 /\ Extra = 0
  <2>1. {r \in Workers : [q \in Workers |-> access[q].pc][r] \in {"create"}} = {}
    BY DEF Access!Init, Access!NoAccess
  <2>2. Creating = 0
    BY <2>1, FS_EmptySet DEF Creating, Among
  <2> QED
    BY <2>2 DEF Extra, Access!Init
<1>7. Unrevoked \in Nat
  BY <1>3, KeysCounted
<1> QED
  BY <1>2, <1>3, <1>5, <1>6, <1>7 DEF KeysInv, Access!Init, Access!NoAccess

LEMMA KeysLimited ==
    ASSUME KeysInv
    PROVE  Access!KeysLimited
<1>1. Unrevoked \in Nat /\ Creating \in Nat /\ MaxKeys \in Nat /\ Extra \in Nat /\ together \in Nat
  BY KeysCounted DEF KeysInv, AccessTypes
<1>2. Unrevoked <= MaxKeys + Extra /\ Unrevoked = Access!Cardinality(Access!Unrevoked)
  BY <1>1, SameCardinality DEF KeysInv, Unrevoked
<1>3. Access!Max({0, together - 1}) = Extra
  <2>1. together - 1 \in Int /\ 0 \in Int
    BY <1>1
  <2>2. /\ Access!Max({0, together - 1}) \in {0, together - 1}
        /\ Access!Max({0, together - 1}) >= 0 /\ Access!Max({0, together - 1}) >= together - 1
    BY <2>1, LargerOf
  <2> QED
    BY <1>1, <2>2 DEF Extra
<1> QED
  BY <1>2, <1>3 DEF Access!KeysLimited, KeysInv

-----------------------------------------------------------------------------
\* Quotas of streams. A client's account balances but for less than a byte of every
\* deposit; the units that bytes are bought for are a quotient.

Balances(total, back, paid, n) ==
    /\ total * UnitsPerByte + back <= paid
    /\ paid - (total * UnitsPerByte + back) <= n * (UnitsPerByte - 1)

LEMMA Units ==
    ASSUME NEW a \in Nat
    PROVE  /\ UnitsPerByte \in Nat \ {0}
           /\ Quota!Bytes(a) \in Nat
           /\ Quota!Bytes(a) * UnitsPerByte \in Nat
           /\ Quota!Bytes(a) * UnitsPerByte <= a
           /\ a - Quota!Bytes(a) * UnitsPerByte <= UnitsPerByte - 1
<1>1. UnitsPerByte \in Nat \ {0}
  BY ServicesAssumption DEF Quota!QuotaAssumption
<1>2. /\ a \div UnitsPerByte \in Nat
      /\ (a \div UnitsPerByte) * UnitsPerByte \in Nat
      /\ (a \div UnitsPerByte) * UnitsPerByte <= a
      /\ a < (a \div UnitsPerByte) * UnitsPerByte + UnitsPerByte
  BY <1>1
<1> QED
  BY <1>1, <1>2 DEF Quota!Bytes

LEMMA BytesAdd ==
    ASSUME NEW a \in Nat, NEW b \in Nat
    PROVE  Quota!Bytes(a) + Quota!Bytes(b) <= Quota!Bytes(a + b)
<1> DEFINE x == Quota!Bytes(a)
           y == Quota!Bytes(b)
           z == Quota!Bytes(a + b)
           m == UnitsPerByte
<1>1. m \in Nat \ {0} /\ x \in Nat /\ x * m <= a /\ x * m \in Nat
  BY Units
<1>a. y \in Nat /\ y * m <= b /\ y * m \in Nat
  BY Units
<1>b. z \in Nat /\ z * m \in Nat /\ a + b - z * m <= m - 1
  <2>1. a + b \in Nat
    OBVIOUS
  <2> QED
    BY <2>1, Units
<1> HIDE DEF x, y, z, m
<1>2. SUFFICES ASSUME x + y >= z + 1 PROVE FALSE
  BY <1>1, <1>a, <1>b DEF x, y, z
<1>3. (x + y) * m = x * m + y * m /\ (z + 1) * m = z * m + m
  BY <1>1, <1>a, <1>b
<1>4. (x + y) * m >= (z + 1) * m
  BY <1>1, <1>a, <1>b, <1>2
<1> QED
  BY <1>1, <1>a, <1>b, <1>3, <1>4

LEMMA BalanceMoves ==
    ASSUME NEW t \in Nat, NEW f \in Nat, NEW d \in Nat, NEW n \in Nat, Balances(t, f, d, n),
           NEW a \in Nat
    PROVE  /\ Balances(t, f, d, n + 1)
           /\ Balances(t + Quota!Bytes(a), f, d + a, n + 1)
           /\ a <= t => Balances(t - a, f + a * UnitsPerByte, d, n)
<1> DEFINE b == Quota!Bytes(a)
           m == UnitsPerByte
<1>1. m \in Nat \ {0} /\ b \in Nat /\ b * m \in Nat /\ b * m <= a /\ a - b * m <= m - 1
  BY Units
<1> HIDE DEF b
<1>2. t * m \in Nat /\ n * (m - 1) \in Nat /\ a * m \in Nat
  BY <1>1
<1>3. (n + 1) * (m - 1) = n * (m - 1) + (m - 1) /\ (t + b) * m = t * m + b * m
  BY <1>1
<1>4. a <= t => (t - a) * m = t * m - a * m
  BY <1>1
<1> HIDE DEF m
<1>5. t * m + f <= d /\ d - (t * m + f) <= n * (m - 1)
  BY DEF Balances, m
<1>6. d - (t * m + f) <= (n + 1) * (m - 1)
  BY <1>1, <1>2, <1>3, <1>5
<1>7. /\ (t + b) * m + f <= d + a
      /\ (d + a) - ((t + b) * m + f) <= (n + 1) * (m - 1)
  BY <1>1, <1>2, <1>3, <1>5
<1>8. a <= t => (t - a) * m + (f + a * m) = t * m + f
  BY <1>1, <1>2, <1>4
<1> QED
  BY <1>5, <1>6, <1>7, <1>8 DEF Balances, b, m

LEMMA BalanceBegins == Balances(0, 0, 0, 0)
<1>1. UnitsPerByte \in Nat \ {0}
  BY Units
<1> QED
  BY <1>1 DEF Balances

\* What a client has left; sum is the recursive function behind it.
Remaining(q) == Quota!MapThenSumSet(LAMBDA u : u.remaining, q)

IsLeft(S, sum) ==
    sum = [s \in SUBSET S |-> IF s = {} THEN 0 ELSE Pick(s).remaining + sum[s \ {Pick(s)}]]

LEMMA RemainingIsChosen ==
    ASSUME NEW S
    PROVE  Remaining(S) = (CHOOSE sum : IsLeft(S, sum))[S]
BY DEF Remaining, Quota!MapThenSumSet, Quota!MapThenFoldSet, Pick, IsLeft

LEMMA RemainingOfNone == Remaining({}) = 0
<1>1. IsLeft({}, [s \in SUBSET {} |-> 0])
  BY DEF IsLeft
<1> DEFINE g == CHOOSE sum : IsLeft({}, sum)
<1>2. IsLeft({}, g)
  BY <1>1
<1> HIDE DEF g
<1>3. g[{}] = 0
  BY <1>2 DEF IsLeft
<1> QED
  BY <1>3, RemainingIsChosen DEF g

LEMMA RemainingOfOne ==
    ASSUME NEW u, u.remaining \in Nat
    PROVE  Remaining({u}) = u.remaining
<1> DEFINE f == [s \in SUBSET {u} |-> IF s = {} THEN 0 ELSE u.remaining]
           g == CHOOSE sum : IsLeft({u}, sum)
<1>1. Pick({u}) = u
  BY DEF Pick
<1>2. IsLeft({u}, f)
  <2>1. f[{}] = 0 /\ f[{u}] = u.remaining
    OBVIOUS
  <2>2. ASSUME NEW s \in SUBSET {u}
        PROVE  f[s] = IF s = {} THEN 0 ELSE Pick(s).remaining + f[s \ {Pick(s)}]
    <3>1. CASE s = {}
      BY <3>1
    <3>2. CASE s # {}
      <4> HIDE DEF f
      <4>1. s = {u} /\ s \ {Pick(s)} = {} /\ Pick(s) = u
        BY <1>1, <3>2
      <4>2. Pick(s).remaining + f[s \ {Pick(s)}] = u.remaining + 0
        BY <2>1, <4>1
      <4>3. f[s] = u.remaining
        BY <2>1, <4>1
      <4> QED
        BY <3>2, <4>2, <4>3
    <3> QED
      BY <3>1, <3>2
  <2>3. f = [s \in SUBSET {u} |-> f[s]]
    OBVIOUS
  <2> HIDE DEF f
  <2> QED
    BY <2>2, <2>3 DEF IsLeft
<1> HIDE DEF f
<1>3. IsLeft({u}, g)
  BY <1>2
<1> HIDE DEF g
<1>4. g[{}] = 0
  BY <1>3 DEF IsLeft
<1>5. g[{u}] = u.remaining + g[{}]
  <2>1. {u} \ {Pick({u})} = {}
    BY <1>1
  <2>2. g[{u}] = Pick({u}).remaining + g[{u} \ {Pick({u})}]
    BY <1>3 DEF IsLeft
  <2> QED
    BY <1>1, <2>1, <2>2
<1>6. Remaining({u}) = g[{u}]
  BY RemainingIsChosen DEF g
<1> QED
  BY <1>4, <1>5, <1>6

\* What is in the manager's map of a client
Holds(q, rest) ==
    \/ q = {} /\ rest = 0
    \/ \E u \in Quota!Usage :
          /\ q = {u} /\ u.remaining = rest
          /\ u.used + u.remaining = u.total /\ u.total <= Quota!Bytes(u.deposit)

Account(c) ==
    \E rest \in Nat :
        /\ Holds(quota[c], rest)
        /\ Balances(streamed[c] + rest + replaced[c], refunded[c], deposited[c], deposits)

QuotaTypes ==
    /\ quota \in [Hourly -> SUBSET Quota!Usage]
    /\ subscriber \in [Workers -> [pc : {"idle", "pay", "quota"}, client : SUBSET Hourly,
                                   amount : Deposits \cup {0}]]
    /\ deposited \in [Hourly -> Nat] /\ streamed \in [Hourly -> Nat]
    /\ refunded \in [Hourly -> Nat] /\ replaced \in [Hourly -> Nat]
    /\ deposits \in Nat

QuotaInv == QuotaTypes /\ \A c \in Hourly : Account(c)

LEMMA AmountsAreNaturals ==
    /\ Deposits \subseteq Nat /\ Sizes \subseteq Nat
    /\ QuotaTypes => \A s \in Workers : subscriber[s].amount \in Nat
<1>1. Deposits \subseteq Nat /\ Sizes \subseteq Nat
  BY ServicesAssumption DEF Quota!QuotaAssumption
<1>2. ASSUME QuotaTypes, NEW s \in Workers
      PROVE  subscriber[s].amount \in Nat
  <2>1. subscriber[s].amount \in Deposits \/ subscriber[s].amount = 0
    BY <1>2 DEF QuotaTypes
  <2>2. \A a : a \in Deposits => a \in Nat
    BY <1>1
  <2> QED
    BY <2>1, <2>2
<1> QED
  BY <1>1, <1>2

\* A usage after a message, and after a deposit
LEMMA UsageCounts ==
    ASSUME NEW u \in Quota!Usage
    PROVE  u.total \in Nat /\ u.used \in Nat /\ u.remaining \in Nat /\ u.deposit \in Nat
BY DEF Quota!Usage

LEMMA UsageStreams ==
    ASSUME NEW u \in Quota!Usage, NEW n \in Nat, n <= u.remaining, NEW v,
           v = [u EXCEPT !.used = @ + n, !.remaining = @ - n]
    PROVE  /\ v \in Quota!Usage /\ v.total = u.total /\ v.used = u.used + n
           /\ v.remaining = u.remaining - n /\ v.deposit = u.deposit
<1> DEFINE U == [total : Nat, used : Nat, remaining : Nat, deposit : Nat]
           v1 == [u EXCEPT !.used = u.used + n]
           v2 == [v1 EXCEPT !.remaining = u.remaining - n]
<1>1. u.total \in Nat /\ u.used \in Nat /\ u.remaining \in Nat /\ u.deposit \in Nat /\ u \in U
  BY DEF Quota!Usage
<1>2. /\ v1 \in U /\ v1.total = u.total /\ v1.used = u.used + n
      /\ v1.remaining = u.remaining /\ v1.deposit = u.deposit
  BY <1>1
<1> HIDE DEF v1
<1>3. /\ v2 \in U /\ v2.total = u.total /\ v2.used = u.used + n
      /\ v2.remaining = u.remaining - n /\ v2.deposit = u.deposit
  BY <1>1, <1>2
<1>4. v = v2 /\ U = Quota!Usage
  BY DEF Quota!Usage, v1
<1> HIDE DEF v2, U
<1> QED
  BY <1>3, <1>4

Grown(u, n, m) == [u EXCEPT !.total = @ + n, !.remaining = @ + n, !.deposit = @ + m]

LEMMA UsageGrows ==
    ASSUME NEW u \in Quota!Usage, NEW n \in Nat, NEW m \in Nat
    PROVE  /\ Grown(u, n, m) \in Quota!Usage /\ Grown(u, n, m).total = u.total + n
           /\ Grown(u, n, m).used = u.used /\ Grown(u, n, m).remaining = u.remaining + n
           /\ Grown(u, n, m).deposit = u.deposit + m
<1> DEFINE U == [total : Nat, used : Nat, remaining : Nat, deposit : Nat]
           v1 == [u EXCEPT !.total = u.total + n]
           v2 == [v1 EXCEPT !.remaining = u.remaining + n]
           v3 == [v2 EXCEPT !.deposit = u.deposit + m]
<1>1. u.total \in Nat /\ u.used \in Nat /\ u.remaining \in Nat /\ u.deposit \in Nat /\ u \in U
  BY DEF Quota!Usage
<1>2. /\ v1 \in U /\ v1.total = u.total + n /\ v1.used = u.used
      /\ v1.remaining = u.remaining /\ v1.deposit = u.deposit
  BY <1>1
<1> HIDE DEF v1
<1>3. /\ v2 \in U /\ v2.total = u.total + n /\ v2.used = u.used
      /\ v2.remaining = u.remaining + n /\ v2.deposit = u.deposit
  BY <1>1, <1>2
<1> HIDE DEF v2
<1>4. /\ v3 \in U /\ v3.total = u.total + n /\ v3.used = u.used
      /\ v3.remaining = u.remaining + n /\ v3.deposit = u.deposit + m
  BY <1>1, <1>3
<1>5. Grown(u, n, m) = v3 /\ U = Quota!Usage
  BY DEF Quota!Usage, v1, v2, Grown
<1> HIDE DEF v3, U
<1> QED
  BY <1>4, <1>5

\* A step of one client's account; a deposit of another gives an account more room.
LEMMA OneAccount ==
    ASSUME QuotaInv, QuotaTypes', NEW c \in Hourly, Account(c)',
           deposits' \in {deposits, deposits + 1},
           \A d \in Hourly \ {c} : /\ quota'[d] = quota[d] /\ streamed'[d] = streamed[d]
                                   /\ replaced'[d] = replaced[d] /\ refunded'[d] = refunded[d]
                                   /\ deposited'[d] = deposited[d]
    PROVE  QuotaInv'
<1>1. ASSUME NEW d \in Hourly \ {c}
      PROVE  Account(d)'
  <2>1. PICK rest \in Nat :
            /\ Holds(quota[d], rest)
            /\ Balances(streamed[d] + rest + replaced[d], refunded[d], deposited[d], deposits)
    BY DEF QuotaInv, Account
  <2>2. /\ streamed[d] + rest + replaced[d] \in Nat /\ refunded[d] \in Nat /\ deposited[d] \in Nat
        /\ deposits \in Nat
    BY DEF QuotaInv, QuotaTypes
  <2>3. Balances(streamed[d] + rest + replaced[d], refunded[d], deposited[d], deposits + 1)
    BY <2>1, <2>2, BalanceMoves
  <2>4. Balances(streamed'[d] + rest + replaced'[d], refunded'[d], deposited'[d], deposits')
    BY <2>1, <2>3
  <2>5. Holds(quota'[d], rest)
    BY <2>1
  <2> QED
    BY <2>4, <2>5 DEF Account
<1> QED
  BY <1>1 DEF QuotaInv

LEMMA QuotaTyped ==
    ASSUME QuotaInv, [Quota!Next]_quotaVars
    PROVE  QuotaTypes'
<1> USE DEF Quota!Return, Quota!NoSubscription, Quota!Add
<1>0. QuotaTypes /\ Deposits \subseteq Nat /\ Sizes \subseteq Nat
  BY AmountsAreNaturals DEF QuotaInv
<1>1. CASE UNCHANGED quotaVars
  BY <1>0, <1>1 DEF quotaVars, QuotaTypes
<1>2. ASSUME NEW s \in Workers, Quota!Identify(s) \/ Quota!VerifyPayment(s)
      PROVE  QuotaTypes'
  BY <1>0, <1>2 DEF Quota!Identify, Quota!VerifyPayment, QuotaTypes
<1>3. ASSUME NEW s \in Workers, Quota!Initialize(s)
      PROVE  QuotaTypes'
  <2> DEFINE a == subscriber[s].amount
             u == [total |-> Quota!Bytes(a), used |-> 0, remaining |-> Quota!Bytes(a),
                   deposit |-> a]
  <2>1. PICK c \in Hourly :
            /\ quota' = [quota EXCEPT ![c] = {u}]
            /\ deposited' = [deposited EXCEPT ![c] = @ + a]
            /\ replaced' = [replaced EXCEPT ![c] = @ + Remaining(quota[c])]
    BY <1>0, <1>3 DEF Quota!Initialize, Remaining, QuotaTypes
  <2>2. a \in Nat /\ Quota!Bytes(a) \in Nat
    BY <1>0, AmountsAreNaturals, Units
  <2>3. u \in Quota!Usage
    BY <2>2 DEF Quota!Usage
  <2>4. Remaining(quota[c]) \in Nat
    BY RemainingOfNone, RemainingOfOne DEF QuotaInv, Account, Holds
  <2>5. subscriber' = [subscriber EXCEPT ![s] = Quota!NoSubscription]
        /\ deposits' = deposits + 1 /\ UNCHANGED <<streamed, refunded>>
    BY <1>3 DEF Quota!Initialize
  <2> HIDE DEF a, u
  <2> QED
    BY <1>0, <2>1, <2>2, <2>3, <2>4, <2>5 DEF QuotaTypes
<1>4. ASSUME NEW c \in Hourly, NEW size \in Sizes, Quota!Stream(c, size)
      PROVE  QuotaTypes'
  <2>1. PICK u \in quota[c] :
            /\ u.remaining >= size
            /\ quota' = [quota EXCEPT ![c] = {[u EXCEPT !.used = @ + size, !.remaining = @ - size]}]
    BY <1>4 DEF Quota!Stream
  <2>2. [u EXCEPT !.used = @ + size, !.remaining = @ - size] \in Quota!Usage
    <3>1. u \in Quota!Usage /\ size \in Nat
      BY <1>0, <2>1 DEF QuotaTypes
    <3> QED
      BY <2>1, <3>1, UsageStreams
  <2> QED
    BY <1>0, <1>4, <2>1, <2>2 DEF Quota!Stream, QuotaTypes
<1>5. ASSUME NEW c \in Hourly, NEW amount \in Deposits, Quota!TopUp(c, amount)
      PROVE  QuotaTypes'
  <2>1. PICK u \in quota[c] :
            quota' = [quota EXCEPT ![c] = {[u EXCEPT !.total = @ + Quota!Bytes(amount),
                                                     !.remaining = @ + Quota!Bytes(amount),
                                                     !.deposit = @ + amount]}]
    BY <1>5 DEF Quota!TopUp
  <2>2. Quota!Bytes(amount) \in Nat /\ amount \in Nat
    BY <1>0, Units
  <2>3. [u EXCEPT !.total = @ + Quota!Bytes(amount), !.remaining = @ + Quota!Bytes(amount),
                  !.deposit = @ + amount] \in Quota!Usage
    <3>1. u \in Quota!Usage
      BY <1>0, <2>1 DEF QuotaTypes
    <3> QED
      <4>1. [u EXCEPT !.total = @ + Quota!Bytes(amount), !.remaining = @ + Quota!Bytes(amount),
                      !.deposit = @ + amount] = Grown(u, Quota!Bytes(amount), amount)
        BY DEF Grown
      <4>2. Grown(u, Quota!Bytes(amount), amount) \in Quota!Usage
        BY <2>2, <3>1, UsageGrows
      <4> QED
        BY <4>1, <4>2
  <2>4. UNCHANGED <<subscriber, streamed, refunded, replaced>> /\ deposits' = deposits + 1
        /\ deposited' = [deposited EXCEPT ![c] = @ + amount]
    BY <1>5 DEF Quota!TopUp
  <2> HIDE DEF Quota!Add
  <2> QED
    BY <1>0, <2>1, <2>2, <2>3, <2>4 DEF QuotaTypes
<1>6. ASSUME NEW c \in Hourly, Quota!Refund(c)
      PROVE  QuotaTypes'
  <2>1. PICK u \in quota[c] : refunded' = [refunded EXCEPT ![c] = @ + u.remaining * UnitsPerByte]
    BY <1>6 DEF Quota!Refund
  <2>2. u.remaining * UnitsPerByte \in Nat
    <3>1. u \in Quota!Usage /\ 0 \in Nat
      BY <1>0, <2>1 DEF QuotaTypes
    <3>2. u.remaining \in Nat /\ UnitsPerByte \in Nat
      BY <3>1, UsageCounts, Units
    <3> QED
      BY <3>2
  <2> QED
    BY <1>0, <1>6, <2>1, <2>2 DEF Quota!Refund, QuotaTypes
<1> QED
  BY <1>1, <1>2, <1>3, <1>4, <1>5, <1>6 DEF Quota!Next

LEMMA QuotaKept ==
    ASSUME QuotaInv, [Quota!Next]_quotaVars
    PROVE  QuotaInv'
<1> USE DEF Quota!Return, Quota!NoSubscription, Quota!Add
<1>0. QuotaTypes /\ QuotaTypes' /\ Deposits \subseteq Nat /\ Sizes \subseteq Nat
  BY QuotaTyped, AmountsAreNaturals DEF QuotaInv
<1>1. CASE UNCHANGED <<quota, deposited, streamed, refunded, replaced, deposits>>
  BY <1>0, <1>1 DEF QuotaInv, Account
<1>2. ASSUME NEW s \in Workers, Quota!Initialize(s)
      PROVE  QuotaInv'
  <2> DEFINE a == subscriber[s].amount
             u == [total |-> Quota!Bytes(a), used |-> 0, remaining |-> Quota!Bytes(a),
                   deposit |-> a]
  <2>1. PICK c \in Hourly :
            /\ quota' = [quota EXCEPT ![c] = {u}]
            /\ deposited' = [deposited EXCEPT ![c] = @ + a]
            /\ replaced' = [replaced EXCEPT ![c] = @ + Remaining(quota[c])]
    BY <1>0, <1>2 DEF Quota!Initialize, Remaining, QuotaTypes
  <2>2. a \in Nat /\ Quota!Bytes(a) \in Nat
    BY <1>0, AmountsAreNaturals, Units
  <2>3. deposits' = deposits + 1 /\ UNCHANGED <<streamed, refunded>>
    BY <1>2 DEF Quota!Initialize
  <2>4. PICK rest \in Nat :
            /\ Holds(quota[c], rest)
            /\ Balances(streamed[c] + rest + replaced[c], refunded[c], deposited[c], deposits)
    BY DEF QuotaInv, Account
  <2>5. Remaining(quota[c]) = rest
    BY <2>4, RemainingOfNone, RemainingOfOne DEF Holds
  <2>6. Holds(quota'[c], Quota!Bytes(a))
    <3>1. u \in Quota!Usage /\ quota'[c] = {u} /\ u.remaining = Quota!Bytes(a)
          /\ u.used + u.remaining = u.total /\ u.total <= Quota!Bytes(u.deposit)
      BY <1>0, <2>1, <2>2 DEF Quota!Usage, QuotaTypes
    <3> HIDE DEF u
    <3> QED
      BY <3>1 DEF Holds
  <2> HIDE DEF a, u
  <2>7. /\ streamed[c] \in Nat /\ replaced[c] \in Nat /\ refunded[c] \in Nat /\ deposited[c] \in Nat
        /\ deposits \in Nat
    BY <1>0 DEF QuotaTypes
  <2>8. /\ streamed'[c] + Quota!Bytes(a) + replaced'[c]
             = streamed[c] + rest + replaced[c] + Quota!Bytes(a)
        /\ refunded'[c] = refunded[c] /\ deposited'[c] = deposited[c] + a
    BY <1>0, <2>1, <2>2, <2>3, <2>5, <2>7 DEF QuotaTypes
  <2>9. Balances(streamed[c] + rest + replaced[c] + Quota!Bytes(a), refunded[c], deposited[c] + a,
                 deposits + 1)
    <3>1. streamed[c] + rest + replaced[c] \in Nat
      BY <2>7
    <3> QED
      BY <2>2, <2>4, <2>7, <3>1, BalanceMoves
  <2>10. Account(c)'
    BY <2>2, <2>3, <2>6, <2>8, <2>9 DEF Account
  <2>11. \A d \in Hourly \ {c} : /\ quota'[d] = quota[d] /\ streamed'[d] = streamed[d]
                                 /\ replaced'[d] = replaced[d] /\ refunded'[d] = refunded[d]
                                 /\ deposited'[d] = deposited[d]
    BY <1>0, <2>1, <2>3 DEF QuotaTypes
  <2> QED
    BY <1>0, <2>3, <2>10, <2>11, OneAccount
<1>3. ASSUME NEW c \in Hourly, NEW size \in Sizes, Quota!Stream(c, size)
      PROVE  QuotaInv'
  <2>1. PICK u \in quota[c] :
            /\ u.remaining >= size
            /\ quota' = [quota EXCEPT ![c] = {[u EXCEPT !.used = @ + size, !.remaining = @ - size]}]
            /\ streamed' = [streamed EXCEPT ![c] = @ + size]
            /\ UNCHANGED <<subscriber, deposited, refunded, replaced, deposits>>
    BY <1>3 DEF Quota!Stream
  <2> DEFINE v == [u EXCEPT !.used = @ + size, !.remaining = @ - size]
  <2>2. PICK rest \in Nat :
            /\ Holds(quota[c], rest)
            /\ Balances(streamed[c] + rest + replaced[c], refunded[c], deposited[c], deposits)
    BY DEF QuotaInv, Account
  <2>3. /\ u \in Quota!Usage /\ u.remaining = rest /\ u.used + u.remaining = u.total
        /\ u.total <= Quota!Bytes(u.deposit)
    BY <2>1, <2>2 DEF Holds
  <2>4. size \in Nat /\ rest - size \in Nat
    BY <1>0, <2>1, <2>3
  <2>5. Holds(quota'[c], rest - size)
    <3>1. v \in Quota!Usage /\ v.remaining = rest - size /\ v.used + v.remaining = v.total
          /\ v.total = u.total /\ v.deposit = u.deposit
      <4>1. /\ v \in Quota!Usage /\ v.total = u.total /\ v.used = u.used + size
            /\ v.remaining = u.remaining - size /\ v.deposit = u.deposit
            /\ u.total \in Nat /\ u.used \in Nat /\ u.remaining \in Nat
        <5>1. u \in Quota!Usage /\ size \in Nat /\ size <= u.remaining
          BY <2>1, <2>3, <2>4
        <5>2. v = [u EXCEPT !.used = @ + size, !.remaining = @ - size]
          BY DEF v
        <5> HIDE DEF v
        <5>3. /\ v \in Quota!Usage /\ v.total = u.total /\ v.used = u.used + size
              /\ v.remaining = u.remaining - size /\ v.deposit = u.deposit
          BY <5>1, <5>2, UsageStreams, Zenon
        <5>4. u.total \in Nat /\ u.used \in Nat /\ u.remaining \in Nat
          BY <5>1, UsageCounts
        <5> QED
          BY <5>3, <5>4
      <4> HIDE DEF v
      <4> QED
        BY <2>3, <2>4, <4>1
    <3>2. quota'[c] = {v}
      BY <1>0, <2>1 DEF QuotaTypes
    <3> HIDE DEF v
    <3> QED
      BY <2>3, <3>1, <3>2 DEF Holds
  <2> HIDE DEF v
  <2>6. /\ streamed'[c] + (rest - size) + replaced'[c] = streamed[c] + rest + replaced[c]
        /\ refunded'[c] = refunded[c] /\ deposited'[c] = deposited[c] /\ deposits' = deposits
    BY <1>0, <2>1, <2>4 DEF QuotaTypes
  <2>7. Account(c)'
    BY <2>2, <2>4, <2>5, <2>6 DEF Account
  <2>8. \A d \in Hourly \ {c} : /\ quota'[d] = quota[d] /\ streamed'[d] = streamed[d]
                                /\ replaced'[d] = replaced[d] /\ refunded'[d] = refunded[d]
                                /\ deposited'[d] = deposited[d]
    BY <1>0, <2>1 DEF QuotaTypes
  <2> QED
    BY <1>0, <2>6, <2>7, <2>8, OneAccount
<1>4. ASSUME NEW c \in Hourly, NEW amount \in Deposits, Quota!TopUp(c, amount)
      PROVE  QuotaInv'
  <2> DEFINE b == Quota!Bytes(amount)
  <2>1. PICK u \in quota[c] :
            /\ quota' = [quota EXCEPT ![c] = {[u EXCEPT !.total = @ + b, !.remaining = @ + b,
                                                        !.deposit = @ + amount]}]
            /\ deposited' = [deposited EXCEPT ![c] = @ + amount]
            /\ deposits' = deposits + 1
            /\ UNCHANGED <<subscriber, streamed, refunded, replaced>>
    BY <1>4 DEF Quota!TopUp
  <2> DEFINE v == [u EXCEPT !.total = @ + b, !.remaining = @ + b, !.deposit = @ + amount]
  <2>2. PICK rest \in Nat :
            /\ Holds(quota[c], rest)
            /\ Balances(streamed[c] + rest + replaced[c], refunded[c], deposited[c], deposits)
    BY DEF QuotaInv, Account
  <2>3. /\ u \in Quota!Usage /\ u.remaining = rest /\ u.used + u.remaining = u.total
        /\ u.total <= Quota!Bytes(u.deposit)
    BY <2>1, <2>2 DEF Holds
  <2>4. amount \in Nat /\ b \in Nat /\ u.deposit \in Nat /\ Quota!Bytes(u.deposit) \in Nat
        /\ Quota!Bytes(u.deposit + amount) \in Nat
    <3>1. amount \in Nat /\ u.deposit \in Nat
      BY <1>0, <2>3 DEF Quota!Usage
    <3>2. u.deposit + amount \in Nat
      BY <3>1
    <3> QED
      BY <3>1, <3>2, Units
  <2>5. Quota!Bytes(u.deposit) + b <= Quota!Bytes(u.deposit + amount)
    BY <2>4, BytesAdd
  <2> HIDE DEF b
  <2>6. Holds(quota'[c], rest + b)
    <3>1. /\ v \in Quota!Usage /\ v.remaining = rest + b /\ v.used + v.remaining = v.total
          /\ v.total = u.total + b /\ v.deposit = u.deposit + amount
      <4>1. /\ v \in Quota!Usage /\ v.total = u.total + b /\ v.used = u.used
            /\ v.remaining = u.remaining + b /\ v.deposit = u.deposit + amount
            /\ u.total \in Nat /\ u.used \in Nat /\ u.remaining \in Nat
        <5>1. u \in Quota!Usage /\ b \in Nat /\ amount \in Nat
          BY <2>3, <2>4
        <5>2. v = Grown(u, b, amount)
          BY DEF v, Grown
        <5> HIDE DEF v
        <5>3. /\ v \in Quota!Usage /\ v.total = u.total + b /\ v.used = u.used
              /\ v.remaining = u.remaining + b /\ v.deposit = u.deposit + amount
          <6>1. Grown(u, b, amount).remaining = u.remaining + b
            BY <5>1, UsageGrows
          <6>2. Grown(u, b, amount) \in Quota!Usage /\ Grown(u, b, amount).total = u.total + b
            BY <5>1, UsageGrows
          <6>3. Grown(u, b, amount).used = u.used
                /\ Grown(u, b, amount).deposit = u.deposit + amount
            BY <5>1, UsageGrows
          <6> QED
            BY <5>2, <6>1, <6>2, <6>3
        <5> QED
          BY <5>1, <5>3, UsageCounts
      <4> HIDE DEF v
      <4> QED
        BY <2>3, <2>4, <4>1
    <3>2. v.total <= Quota!Bytes(v.deposit)
      BY <2>3, <2>4, <2>5, <3>1 DEF Quota!Usage
    <3>3. quota'[c] = {v}
      BY <1>0, <2>1 DEF QuotaTypes
    <3> HIDE DEF v
    <3> QED
      BY <3>1, <3>2, <3>3 DEF Holds
  <2> HIDE DEF v
  <2>7. /\ streamed[c] \in Nat /\ replaced[c] \in Nat /\ refunded[c] \in Nat /\ deposited[c] \in Nat
        /\ deposits \in Nat
    BY <1>0 DEF QuotaTypes
  <2>8. /\ streamed'[c] + (rest + b) + replaced'[c] = streamed[c] + rest + replaced[c] + b
        /\ refunded'[c] = refunded[c] /\ deposited'[c] = deposited[c] + amount
    BY <1>0, <2>1, <2>4, <2>7 DEF QuotaTypes
  <2>9. Balances(streamed[c] + rest + replaced[c] + b, refunded[c], deposited[c] + amount,
            deposits + 1)
    <3>1. streamed[c] + rest + replaced[c] \in Nat
      BY <2>7
    <3> QED
      BY <2>2, <2>4, <2>7, <3>1, BalanceMoves DEF b
  <2>10. Account(c)'
    <3>1. rest + b \in Nat
      BY <2>4
    <3> QED
      BY <2>1, <2>6, <2>8, <2>9, <3>1 DEF Account
  <2>11. \A d \in Hourly \ {c} : /\ quota'[d] = quota[d] /\ streamed'[d] = streamed[d]
                                 /\ replaced'[d] = replaced[d] /\ refunded'[d] = refunded[d]
                                 /\ deposited'[d] = deposited[d]
    BY <1>0, <2>1 DEF QuotaTypes
  <2> QED
    BY <1>0, <2>1, <2>10, <2>11, OneAccount
<1>5. ASSUME NEW c \in Hourly, Quota!Refund(c)
      PROVE  QuotaInv'
  <2>1. PICK u \in quota[c] :
            /\ refunded' = [refunded EXCEPT ![c] = @ + u.remaining * UnitsPerByte]
            /\ quota' = [quota EXCEPT ![c] = {}]
            /\ UNCHANGED <<subscriber, deposited, streamed, replaced, deposits>>
    BY <1>5 DEF Quota!Refund
  <2>2. PICK rest \in Nat :
            /\ Holds(quota[c], rest)
            /\ Balances(streamed[c] + rest + replaced[c], refunded[c], deposited[c], deposits)
    BY DEF QuotaInv, Account
  <2>3. u.remaining = rest
    BY <2>1, <2>2 DEF Holds
  <2>4. /\ streamed[c] \in Nat /\ replaced[c] \in Nat /\ refunded[c] \in Nat /\ deposited[c] \in Nat
        /\ deposits \in Nat
    BY <1>0 DEF QuotaTypes
  <2>5. Holds(quota'[c], 0)
    BY <1>0, <2>1 DEF Holds, QuotaTypes
  <2> DEFINE t == streamed[c] + rest + replaced[c]
  <2>6. t \in Nat /\ rest <= t /\ streamed'[c] + 0 + replaced'[c] = t - rest
    BY <2>1, <2>4
  <2>7. Balances(t - rest, refunded[c] + rest * UnitsPerByte, deposited[c], deposits)
    <3>1. Balances(t, refunded[c], deposited[c], deposits)
      BY <2>2
    <3> HIDE DEF t
    <3> QED
      BY <2>4, <2>6, <3>1, BalanceMoves
  <2> HIDE DEF t
  <2>8. /\ refunded'[c] = refunded[c] + rest * UnitsPerByte /\ deposited'[c] = deposited[c]
        /\ deposits' = deposits
    BY <1>0, <2>1, <2>3 DEF QuotaTypes
  <2>9. Account(c)'
    BY <2>5, <2>6, <2>7, <2>8 DEF Account
  <2>10. \A d \in Hourly \ {c} : /\ quota'[d] = quota[d] /\ streamed'[d] = streamed[d]
                                 /\ replaced'[d] = replaced[d] /\ refunded'[d] = refunded[d]
                                 /\ deposited'[d] = deposited[d]
    BY <1>0, <2>1 DEF QuotaTypes
  <2> QED
    BY <1>0, <2>8, <2>9, <2>10, OneAccount
<1>6. ASSUME NEW s \in Workers, Quota!Identify(s) \/ Quota!VerifyPayment(s)
      PROVE  QuotaInv'
  BY <1>1, <1>6 DEF Quota!Identify, Quota!VerifyPayment
<1>7. CASE UNCHANGED quotaVars
  BY <1>1, <1>7 DEF quotaVars
<1> QED
  BY <1>2, <1>3, <1>4, <1>5, <1>6, <1>7 DEF Quota!Next

LEMMA QuotaBegins ==
    ASSUME Quota!Init
    PROVE  QuotaInv
<1>1. QuotaTypes
  BY DEF Quota!Init, QuotaTypes, Quota!NoSubscription
<1>2. ASSUME NEW c \in Hourly
      PROVE  Account(c)
  <2>1. Holds(quota[c], 0)
    BY DEF Quota!Init, Holds
  <2>2. Balances(streamed[c] + 0 + replaced[c], refunded[c], deposited[c], deposits)
    BY BalanceBegins DEF Quota!Init
  <2> QED
    BY <2>1, <2>2 DEF Account
<1> QED
  BY <1>1, <1>2 DEF QuotaInv

LEMMA QuotaConserved ==
    ASSUME QuotaInv
    PROVE  Quota!QuotaConserved
<1>1. ASSUME NEW c \in Hourly
      PROVE  /\ (streamed[c] + Remaining(quota[c]) + replaced[c]) * UnitsPerByte + refunded[c]
                  <= deposited[c]
             /\ deposited[c] - ((streamed[c] + Remaining(quota[c]) + replaced[c]) * UnitsPerByte
                                  + refunded[c])
                  <= deposits * (UnitsPerByte - 1)
             /\ \A u \in quota[c] : u.used + u.remaining = u.total
                   /\ u.total <= Quota!Bytes(u.deposit)
  <2>1. PICK rest \in Nat :
            /\ Holds(quota[c], rest)
            /\ Balances(streamed[c] + rest + replaced[c], refunded[c], deposited[c], deposits)
    BY DEF QuotaInv, Account
  <2>2. Remaining(quota[c]) = rest
    BY <2>1, RemainingOfNone, RemainingOfOne DEF Holds
  <2> QED
    BY <2>1, <2>2 DEF Balances, Holds
<1> QED
  BY <1>1 DEF Quota!QuotaConserved, Remaining

-----------------------------------------------------------------------------
\* The rate limiter. Passed is what was let through from first to last; a window began
\* when its record was made, and has counted what is in it.

Ticks(first, last) == {t \in 0..LimiterHorizon : first <= t /\ t <= last}
Passed(first, last) == SumFunctionOnSet(admitted, Ticks(first, last))
Past == Allowed * restarts
Counted == IF Access!Fresh THEN 0 ELSE IF limiter.count <= Allowed THEN limiter.count ELSE Allowed
Began == IF Access!Fresh THEN tick ELSE limiter.resetTime - Window

LimiterTypes ==
    /\ limiter \in [count : Nat, resetTime : Int]
    /\ tick \in 0..LimiterHorizon
    /\ admitted \in [0..LimiterHorizon -> Nat]
    /\ refused \in BOOLEAN
    /\ restarts \in Nat

LimiterInv ==
    /\ LimiterTypes
    /\ Access!Fresh \/ limiter.resetTime - Window <= tick
    /\ \A t, u \in Int :
          /\ t > tick => Passed(t, u) = 0
          /\ t >= Began => Passed(t, u) <= Past + Counted
          /\ t >= tick - Window => Passed(t, u) <= Past + Allowed + Counted
    /\ \A t \in Int : Passed(t, t + Window) <= Past + Allowed + Allowed
    /\ \/ Passed(limiter.resetTime - Window, limiter.resetTime) >= limiter.count
       \/ Passed(limiter.resetTime - Window, limiter.resetTime) >= Allowed
    /\ refused => limiter.count > Allowed

LEMMA LimiterConstants ==
    Allowed \in Nat /\ Allowed > 0 /\ Window \in Nat /\ LimiterHorizon \in Nat
BY ServicesAssumption DEF Access!LimiterAssumption

LEMMA SumIsThrough ==
    ASSUME NEW S
    PROVE  Access!MapThenSumSet(LAMBDA t : admitted[t], S) = SumFunctionOnSet(admitted, S)
<1>1. Access!MapThenSumSet(LAMBDA t : admitted[t], S) = (CHOOSE sum : IsSumOf(admitted, S, sum))[S]
  BY DEF Access!MapThenSumSet, Access!MapThenFoldSet, IsSumOf, Pick
<1> QED
  BY <1>1, SumIsChosen

LEMMA ThroughIsPassed ==
    ASSUME NEW first \in Int, NEW last \in Int
    PROVE  Access!Through(first, last) = Passed(first, last)
<1> DEFINE m == Access!Max({0, first})
           n == Access!Min({last, LimiterHorizon})
<1>1. /\ m \in {0, first} /\ m >= 0 /\ m >= first
      /\ n \in {last, LimiterHorizon} /\ n <= last /\ n <= LimiterHorizon
  <2>1. 0 \in Int /\ LimiterHorizon \in Int
    BY LimiterConstants
  <2>2. m \in {0, first} /\ m >= 0 /\ m >= first
    BY <2>1, LargerOf
  <2>3. n \in {last, LimiterHorizon} /\ n <= last /\ n <= LimiterHorizon
    BY <2>1, LargerOf
  <2> QED
    BY <2>2, <2>3
<1>2. Access!Through(first, last) = SumFunctionOnSet(admitted, m..n)
  BY SumIsThrough DEF Access!Through
<1> HIDE DEF m, n
<1>3. m..n = Ticks(first, last)
  BY <1>1, LimiterConstants DEF Ticks
<1> QED
  BY <1>2, <1>3 DEF Passed

LEMMA TicksAreFinite ==
    ASSUME NEW first \in Int, NEW last \in Int
    PROVE  IsFiniteSet(Ticks(first, last)) /\ Ticks(first, last) \subseteq 0..LimiterHorizon
<1>1. IsFiniteSet(0..LimiterHorizon)
  BY LimiterConstants, FS_Interval
<1> QED
  BY <1>1, FS_Subset DEF Ticks

LEMMA PassedType ==
    ASSUME LimiterTypes, NEW first \in Int, NEW last \in Int
    PROVE  Passed(first, last) \in Nat
<1>1. \A t \in Ticks(first, last) : admitted[t] \in Int /\ admitted[t] >= 0
  BY TicksAreFinite DEF LimiterTypes
<1> QED
  BY <1>1, TicksAreFinite, SumType DEF Passed

\* What one entry has more, every sum has more that it is in.
MoreIn(S, f, g, y, k) ==
    /\ k \in Int
    /\ \A x \in S : f[x] \in Int /\ g[x] \in Int
    /\ \A x \in S \ {y} : g[x] = f[x]
    /\ y \in S => g[y] = f[y] + k

LEMMA SomeMore ==
    ASSUME NEW S, IsFiniteSet(S), NEW f, NEW g, NEW y, NEW k, MoreIn(S, f, g, y, k)
    PROVE  SumFunctionOnSet(g, S) = SumFunctionOnSet(f, S) + (IF y \in S THEN k ELSE 0)
<1>0. /\ k \in Int
      /\ \A x \in S : f[x] \in Int /\ g[x] \in Int
      /\ \A x \in S \ {y} : g[x] = f[x]
      /\ y \in S => g[y] = f[y] + k
  BY DEF MoreIn
<1> DEFINE R == S \ {y}
<1>1. IsFiniteSet(R)
  BY FS_Subset
<1>2. SumFunctionOnSet(g, R) = SumFunctionOnSet(f, R)
  BY <1>0, <1>1, SumCongruence
<1>3. SumFunctionOnSet(f, R) \in Int
  BY <1>0, <1>1, SumType
<1>4. CASE y \in S
  <2>1. SumFunctionOnSet(f, S) = f[y] + SumFunctionOnSet(f, R)
    BY <1>0, <1>4, SumRemove
  <2>2. SumFunctionOnSet(g, S) = g[y] + SumFunctionOnSet(g, R)
    BY <1>0, <1>4, SumRemove
  <2>3. f[y] \in Int /\ g[y] = f[y] + k
    BY <1>0, <1>4
  <2> QED
    BY <1>0, <1>2, <1>3, <1>4, <2>1, <2>2, <2>3
<1>5. CASE y \notin S
  <2>1. R = S
    BY <1>5
  <2> HIDE DEF R
  <2> QED
    BY <1>0, <1>2, <1>3, <1>5, <2>1
<1> QED
  BY <1>4, <1>5

\* One more in one entry is one more in every sum it is in.
LEMMA OneMore ==
    ASSUME NEW S, IsFiniteSet(S), NEW f, NEW g, NEW y, \A x \in S : f[x] \in Int /\ g[x] \in Int,
           \A x \in S \ {y} : g[x] = f[x], y \in S => g[y] = f[y] + 1
    PROVE  SumFunctionOnSet(g, S) = SumFunctionOnSet(f, S) + (IF y \in S THEN 1 ELSE 0)
<1>1. MoreIn(S, f, g, y, 1)
  BY DEF MoreIn
<1> QED
  BY <1>1, SomeMore

\* One more is let through.
LEMMA PassedMoves ==
    ASSUME LimiterTypes, admitted' = [admitted EXCEPT ![tick] = @ + 1],
           NEW first \in Int, NEW last \in Int
    PROVE  Passed(first, last)'
               = Passed(first, last) + (IF first <= tick /\ tick <= last THEN 1 ELSE 0)
<1> DEFINE S == Ticks(first, last)
<1>1. /\ IsFiniteSet(S) /\ S \subseteq 0..LimiterHorizon
      /\ (tick \in S <=> (first <= tick /\ tick <= last))
  <2>1. tick \in S <=> (first <= tick /\ tick <= last)
    BY DEF Ticks, LimiterTypes
  <2> QED
    BY <2>1, TicksAreFinite
<1>2. /\ \A t \in S : admitted[t] \in Int /\ admitted'[t] \in Int
      /\ \A t \in S \ {tick} : admitted'[t] = admitted[t]
      /\ tick \in S => admitted'[tick] = admitted[tick] + 1
  BY <1>1 DEF LimiterTypes
<1>3. Passed(first, last) = SumFunctionOnSet(admitted, S)
      /\ Passed(first, last)' = SumFunctionOnSet(admitted', S)
  BY DEF Passed, Ticks
<1> HIDE DEF S
<1>4. SumFunctionOnSet(admitted', S) = SumFunctionOnSet(admitted, S) + (IF tick \in S THEN 1 ELSE 0)
  <2>1. ASSUME NEW f, NEW g, \A t \in S : f[t] \in Int /\ g[t] \in Int,
               \A t \in S \ {tick} : g[t] = f[t], tick \in S => g[tick] = f[tick] + 1
        PROVE  SumFunctionOnSet(g, S) = SumFunctionOnSet(f, S) + (IF tick \in S THEN 1 ELSE 0)
    BY <1>1, <2>1, OneMore
  <2> QED
    BY <1>2, <2>1
<1> QED
  BY <1>1, <1>3, <1>4

\* A request is let through: its record has not counted as many as are allowed.
LEMMA LetThrough ==
    ASSUME LimiterInv, LimiterTypes', UNCHANGED <<tick, restarts>>,
           admitted' = [admitted EXCEPT ![tick] = @ + 1],
           Counted < Allowed, Counted' = Counted + 1, Began' = Began, Began <= tick,
           limiter'.resetTime >= tick, limiter'.resetTime - Window <= tick,
           limiter'.count = Counted + 1, ~refused',
           Access!Fresh \/ (limiter'.resetTime = limiter.resetTime /\ limiter.count = Counted)
    PROVE  LimiterInv'
<1>0. LimiterTypes /\ Allowed \in Nat /\ Window \in Nat /\ tick \in Int
  <2>1. LimiterTypes
    BY DEF LimiterInv
  <2>2. tick \in Int
    BY <2>1 DEF LimiterTypes
  <2> QED
    BY <2>1, <2>2, LimiterConstants
<1>1. /\ LimiterTypes /\ Allowed \in Nat /\ Window \in Nat /\ Past \in Nat /\ Past' = Past
      /\ Counted \in Nat /\ tick \in Int /\ Began \in Int
  <2>1. Past \in Nat /\ Past' = Past
    BY <1>0 DEF Past, LimiterTypes
  <2>2. limiter.count \in Nat /\ limiter.resetTime \in Int
    BY <1>0 DEF LimiterTypes
  <2>3. Counted \in Nat
    BY <1>0, <2>2 DEF Counted
  <2>4. Began \in Int
    BY <1>0, <2>2 DEF Began
  <2> QED
    BY <1>0, <2>1, <2>3, <2>4
<1>2. ASSUME NEW t \in Int, NEW u \in Int
      PROVE  /\ Passed(t, u)' = Passed(t, u) + (IF t <= tick /\ tick <= u THEN 1 ELSE 0)
             /\ Passed(t, u) \in Nat /\ Passed(t, u)' \in Nat
  <2>1. Passed(t, u)' = Passed(t, u) + (IF t <= tick /\ tick <= u THEN 1 ELSE 0)
    BY <1>1, PassedMoves
  <2>2. Passed(t, u) \in Nat
    BY <1>1, PassedType
  <2>3. \A p \in Nat : p + (IF t <= tick /\ tick <= u THEN 1 ELSE 0) \in Nat
    OBVIOUS
  <2> QED
    BY <2>1, <2>2, <2>3
<1>3. ASSUME NEW t \in Int, NEW u \in Int
      PROVE  /\ t > tick' => Passed(t, u)' = 0
             /\ t >= Began' => Passed(t, u)' <= Past' + Counted'
             /\ t >= tick' - Window => Passed(t, u)' <= Past' + Allowed + Counted'
  <2>1. /\ t > tick => Passed(t, u) = 0
        /\ t >= Began => Passed(t, u) <= Past + Counted
        /\ t >= tick - Window => Passed(t, u) <= Past + Allowed + Counted
    BY DEF LimiterInv
  <2>2. \A p, q \in Nat :
            /\ q = p + (IF t <= tick /\ tick <= u THEN 1 ELSE 0)
            /\ t > tick => p = 0
            /\ t >= Began => p <= Past + Counted
            /\ t >= tick - Window => p <= Past + Allowed + Counted
            => /\ t > tick => q = 0
               /\ t >= Began => q <= Past + (Counted + 1)
               /\ t >= tick - Window => q <= Past + Allowed + (Counted + 1)
    BY <1>1
  <2>3. Passed(t, u)' \in Nat
    BY <1>2
  <2>4. /\ t > tick => Passed(t, u)' = 0
        /\ t >= Began => Passed(t, u)' <= Past + (Counted + 1)
        /\ t >= tick - Window => Passed(t, u)' <= Past + Allowed + (Counted + 1)
    BY <1>2, <2>1, <2>2, <2>3
  <2> QED
    BY <1>1, <2>4
<1>4. ASSUME NEW t \in Int
      PROVE  Passed(t, t + Window)' <= Past' + Allowed + Allowed
  <2>1. t + Window \in Int
    BY <1>1
  <2>2. /\ Passed(t, t + Window) <= Past + Allowed + Allowed
        /\ t >= tick - Window => Passed(t, t + Window) <= Past + Allowed + Counted
    BY <2>1 DEF LimiterInv
  <2>3. \A p, q \in Nat :
            /\ q = p + (IF t <= tick /\ tick <= t + Window THEN 1 ELSE 0)
            /\ p <= Past + Allowed + Allowed
            /\ t >= tick - Window => p <= Past + Allowed + Counted
            => q <= Past + Allowed + Allowed
    BY <1>1
  <2>4. Passed(t, t + Window)'
             = Passed(t, t + Window) + (IF t <= tick /\ tick <= t + Window THEN 1 ELSE 0)
        /\ Passed(t, t + Window) \in Nat /\ Passed(t, t + Window)' \in Nat
    BY <1>2, <2>1
  <2>5. Passed(t, t + Window)' <= Past + Allowed + Allowed
    BY <2>2, <2>3, <2>4
  <2> QED
    BY <1>1, <2>5
<1>5. Passed(limiter.resetTime - Window, limiter.resetTime)' >= limiter'.count
  <2> DEFINE a == limiter'.resetTime - Window
             b == limiter'.resetTime
  <2>1. a \in Int /\ b \in Int /\ a <= tick /\ tick <= b
    BY <1>1 DEF LimiterTypes
  <2>2. SumFunctionOnSet(admitted', Ticks(a, b)) = Passed(a, b) + 1 /\ Passed(a, b) \in Nat
    <3> HIDE DEF a, b
    <3>1. Passed(a, b) \in Nat
      BY <1>2, <2>1
    <3>2. \A c, d \in Int : c <= tick /\ tick <= d
              => SumFunctionOnSet(admitted', Ticks(c, d)) = Passed(c, d) + 1
      BY <1>2 DEF Passed, Ticks
    <3> QED
      BY <2>1, <3>1, <3>2
  <2>3. Passed(a, b) >= Counted
    <3>1. CASE Access!Fresh
      BY <2>2, <3>1 DEF Counted
    <3>2. CASE ~Access!Fresh
      <4>1. a = limiter.resetTime - Window /\ b = limiter.resetTime /\ limiter.count = Counted
        BY <3>2
      <4>2. Passed(a, b) >= Counted \/ Passed(a, b) >= Allowed
        BY <4>1 DEF LimiterInv
      <4> HIDE DEF a, b
      <4> QED
        BY <1>1, <2>2, <4>2
    <3> QED
      BY <3>1, <3>2
  <2> HIDE DEF a, b
  <2>4. SumFunctionOnSet(admitted', Ticks(a, b)) >= limiter'.count
    BY <1>1, <2>2, <2>3
  <2> QED
    BY <2>4 DEF Passed, Ticks, a, b
<1> QED
  BY <1>1, <1>3, <1>4, <1>5 DEF LimiterInv

\* Nothing is let through: the sums are what they were.
LEMMA NotThrough ==
    ASSUME LimiterInv, UNCHANGED admitted, NEW t \in Int, NEW u \in Int
    PROVE  Passed(t, u)' = Passed(t, u) /\ Passed(t, u) \in Nat
BY PassedType DEF LimiterInv, Passed, Ticks

LEMMA LimiterNumbers ==
    ASSUME LimiterTypes
    PROVE  /\ Past \in Nat /\ Counted \in Nat /\ Began \in Int /\ tick \in Nat
           /\ limiter.count \in Nat /\ limiter.resetTime \in Int /\ restarts \in Nat
           /\ Counted <= Allowed
<1>1. limiter.count \in Nat /\ limiter.resetTime \in Int /\ restarts \in Nat
  BY DEF LimiterTypes
<1>2. tick \in Nat
  BY LimiterConstants DEF LimiterTypes
<1>3. Past \in Nat
  BY <1>1, LimiterConstants DEF Past
<1>4. Counted \in Nat /\ Counted <= Allowed
  BY <1>1, LimiterConstants DEF Counted
<1>5. Began \in Int
  BY <1>1, <1>2, LimiterConstants DEF Began
<1> QED
  BY <1>1, <1>2, <1>3, <1>4, <1>5

LEMMA CheckKeeps ==
    ASSUME LimiterInv, Access!Check
    PROVE  LimiterInv'
<1>0. /\ LimiterTypes /\ tick \in Nat /\ limiter.count \in Nat /\ limiter.resetTime \in Int
      /\ Allowed \in Nat /\ Allowed > 0 /\ Window \in Nat /\ tick \in 0..LimiterHorizon
  <2>1. LimiterTypes
    BY DEF LimiterInv
  <2> QED
    BY <2>1, LimiterNumbers, LimiterConstants DEF LimiterTypes
<1>1. /\ limiter' = [Access!Record EXCEPT !.count = Access!Min({Access!Record.count, Allowed}) + 1]
      /\ admitted' = IF Access!Record.count + 1 > Allowed
                        THEN admitted ELSE [admitted EXCEPT ![tick] = @ + 1]
      /\ refused' = (Access!Record.count + 1 > Allowed \/ (refused /\ ~Access!Fresh))
      /\ UNCHANGED <<tick, restarts>>
  BY DEF Access!Check
<1>2. \A n \in Nat : Access!Min({n, Allowed}) = IF n <= Allowed THEN n ELSE Allowed
  <2>1. ASSUME NEW n \in Nat
        PROVE  Access!Min({n, Allowed}) = IF n <= Allowed THEN n ELSE Allowed
    <3>1. Access!Min({n, Allowed}) \in {n, Allowed}
          /\ Access!Min({n, Allowed}) <= n /\ Access!Min({n, Allowed}) <= Allowed
      BY <1>0, LargerOf
    <3> QED
      BY <1>0, <3>1
  <2> QED
    BY <2>1
<1>3. ASSUME admitted' = [admitted EXCEPT ![tick] = @ + 1],
             limiter' \in [count : Nat, resetTime : Int],
             UNCHANGED <<tick, restarts>>, refused' \in BOOLEAN
      PROVE  LimiterTypes'
  <2>1. admitted' \in [0..LimiterHorizon -> Nat]
    BY <1>0, <1>3 DEF LimiterTypes
  <2> QED
    BY <1>0, <1>3, <2>1 DEF LimiterTypes
<1>4. CASE Access!Fresh
  <2>1. Access!Record = [count |-> 0, resetTime |-> tick + Window]
    BY <1>4 DEF Access!Record
  <2>2. limiter' = [count |-> 1, resetTime |-> tick + Window]
    <3>1. Access!Min({0, Allowed}) + 1 = 1
      BY <1>0, <1>2
    <3> QED
      BY <1>1, <2>1, <3>1
  <2>3. admitted' = [admitted EXCEPT ![tick] = @ + 1] /\ refused' = FALSE
    <3>1. ~(Access!Record.count + 1 > Allowed)
      BY <1>0, <2>1
    <3>2. ~(Access!Record.count + 1 > Allowed \/ (refused /\ ~Access!Fresh))
      BY <1>4, <3>1
    <3> QED
      BY <1>1, <3>1, <3>2
  <2>4. LimiterTypes'
    <3>1. limiter' \in [count : Nat, resetTime : Int]
      BY <1>0, <2>2
    <3> QED
      BY <1>1, <1>3, <2>3, <3>1
  <2>5. ~Access!Fresh'
    BY <1>0, <1>1, <2>2 DEF Access!Fresh
  <2>6. Counted = 0 /\ Counted' = 1 /\ Began = tick /\ Began' = tick
    BY <1>0, <1>1, <1>4, <2>2, <2>5 DEF Counted, Began
  <2>7. /\ limiter'.resetTime >= tick /\ limiter'.resetTime - Window <= tick /\ limiter'.count = 1
    BY <1>0, <2>2
  <2>8. UNCHANGED <<tick, restarts>> /\ Counted < Allowed /\ Counted' = Counted + 1
        /\ Began' = Began /\ Began <= tick /\ limiter'.count = Counted + 1 /\ ~refused'
    BY <1>0, <1>1, <2>3, <2>6, <2>7
  <2> QED
    BY <1>4, <2>3, <2>4, <2>7, <2>8, LetThrough
<1>5. CASE ~Access!Fresh /\ limiter.count < Allowed
  <2>1. Access!Record = limiter
    BY <1>5 DEF Access!Record
  <2>2. limiter' = [limiter EXCEPT !.count = limiter.count + 1]
    <3>1. Access!Min({limiter.count, Allowed}) = limiter.count
      BY <1>0, <1>2, <1>5
    <3> QED
      BY <1>1, <2>1, <3>1
  <2>3. admitted' = [admitted EXCEPT ![tick] = @ + 1] /\ refused' = FALSE
    <3>1. ~(limiter.count + 1 > Allowed) /\ ~(limiter.count > Allowed)
      BY <1>0, <1>5
    <3>2. ~refused
      BY <3>1 DEF LimiterInv
    <3> QED
      BY <1>1, <2>1, <3>1, <3>2
  <2>4. /\ limiter' \in [count : Nat, resetTime : Int] /\ limiter'.count = limiter.count + 1
        /\ limiter'.resetTime = limiter.resetTime
    BY <1>0, <2>2 DEF LimiterTypes
  <2>5. LimiterTypes'
    BY <1>1, <1>3, <2>3, <2>4
  <2>6. ~Access!Fresh' /\ limiter.resetTime >= tick
    BY <1>0, <1>1, <1>5, <2>4 DEF Access!Fresh
  <2>7. Counted = limiter.count
    BY <1>0, <1>5 DEF Counted
  <2>8. Counted' = limiter.count + 1
    BY <1>0, <1>5, <2>4, <2>6 DEF Counted
  <2>9. Began' = Began /\ Began = limiter.resetTime - Window
    BY <1>5, <2>4, <2>6 DEF Began
  <2>10. limiter.resetTime - Window <= tick
    BY <1>5 DEF LimiterInv
  <2>11. /\ UNCHANGED <<tick, restarts>> /\ Counted < Allowed /\ Counted' = Counted + 1
         /\ Began <= tick /\ limiter'.count = Counted + 1 /\ ~refused'
         /\ limiter'.resetTime >= tick /\ limiter'.resetTime - Window <= tick
         /\ limiter'.resetTime = limiter.resetTime /\ limiter.count = Counted
    BY <1>1, <1>5, <2>3, <2>4, <2>6, <2>7, <2>8, <2>9, <2>10
  <2> QED
    BY <2>3, <2>5, <2>9, <2>11, LetThrough
<1>6. CASE ~Access!Fresh /\ limiter.count >= Allowed
  <2>1. Access!Record = limiter
    BY <1>6 DEF Access!Record
  <2>2. limiter' = [limiter EXCEPT !.count = Allowed + 1]
    <3>1. Access!Min({limiter.count, Allowed}) = Allowed
      BY <1>0, <1>2, <1>6
    <3> QED
      BY <1>1, <2>1, <3>1
  <2>3. UNCHANGED admitted /\ refused' = TRUE
    <3>1. limiter.count + 1 > Allowed
      BY <1>0, <1>6
    <3> QED
      BY <1>1, <2>1, <3>1
  <2>4. /\ limiter' \in [count : Nat, resetTime : Int] /\ limiter'.count = Allowed + 1
        /\ limiter'.resetTime = limiter.resetTime
    BY <1>0, <2>2 DEF LimiterTypes
  <2>5. LimiterTypes'
    BY <1>0, <1>1, <2>3, <2>4 DEF LimiterTypes
  <2>6. ~Access!Fresh' /\ Began' = Began /\ Past' = Past
    BY <1>1, <1>6, <2>4 DEF Access!Fresh, Began, Past
  <2>7. Counted' = Allowed /\ Counted = Allowed
    BY <1>0, <1>6, <2>4, <2>6 DEF Counted
  <2>8. \A t, u \in Int : Passed(t, u)' = Passed(t, u)
    BY <2>3, NotThrough
  <2>9. /\ Passed(limiter.resetTime - Window, limiter.resetTime)'
             = Passed(limiter.resetTime - Window, limiter.resetTime)
        /\ Passed(limiter.resetTime - Window, limiter.resetTime) \in Nat
        /\ Passed(limiter.resetTime - Window, limiter.resetTime) >= Allowed
    <3>1. limiter.resetTime - Window \in Int
      BY <1>0
    <3>2. Passed(limiter.resetTime - Window, limiter.resetTime) \in Nat
      BY <1>0, <3>1, PassedType
    <3>3. Passed(limiter.resetTime - Window, limiter.resetTime)'
             = Passed(limiter.resetTime - Window, limiter.resetTime)
      BY <2>3, <2>4 DEF Passed, Ticks
    <3> QED
      BY <1>0, <1>6, <3>2, <3>3 DEF LimiterInv
  <2>10. limiter'.count > Allowed /\ (Access!Fresh' \/ limiter'.resetTime - Window <= tick')
    BY <1>0, <1>1, <1>6, <2>4 DEF LimiterInv
  <2>11. \A t \in Int : t + Window \in Int
    BY <1>0
  <2>12. \A t \in Int : Passed(t, t + Window)' = Passed(t, t + Window)
    BY <2>8, <2>11
  <2>13. \A t, u \in Int :
            /\ t > tick' => Passed(t, u)' = 0
            /\ t >= Began' => Passed(t, u)' <= Past' + Counted'
            /\ t >= tick' - Window => Passed(t, u)' <= Past' + Allowed + Counted'
    BY <1>1, <2>6, <2>7, <2>8 DEF LimiterInv
  <2> QED
    BY <2>5, <2>6, <2>9, <2>10, <2>12, <2>13 DEF LimiterInv
<1> QED
  BY <1>0, <1>4, <1>5, <1>6

LEMMA NoRecordType ==
    /\ Access!NoRecord \in [count : Nat, resetTime : Int]
    /\ Access!NoRecord.count = 0 /\ Access!NoRecord.resetTime = -1
<1>1. 0 \in Nat /\ -1 \in Int
  OBVIOUS
<1> QED
  BY <1>1 DEF Access!NoRecord

\* Nothing is let through: no bound on what was gets lower, unless what it bounds begins
\* later.
LEMMA BoundsKept ==
    ASSUME LimiterInv, LimiterTypes', UNCHANGED admitted,
           NEW past \in Nat, NEW reckoned \in Nat, NEW began \in Int, NEW later \in Nat,
           Past' = past, Counted' = reckoned, Began' = began, tick' = later,
           later >= tick, past >= Past,
           began > tick \/ (began >= Began /\ past + reckoned >= Past + Counted),
           past + reckoned >= Past + Counted \/ later - Window >= Began,
           Access!Fresh' \/ limiter'.resetTime - Window <= tick',
           limiter' = limiter \/ limiter'.count = 0,
           refused' => refused /\ limiter' = limiter
    PROVE  LimiterInv'
<1>0. /\ LimiterTypes /\ tick \in Nat /\ limiter.count \in Nat /\ limiter.resetTime \in Int
      /\ Allowed \in Nat /\ Window \in Nat /\ Began \in Int
      /\ Past \in Nat /\ Counted \in Nat /\ Counted <= Allowed
  <2>1. LimiterTypes
    BY DEF LimiterInv
  <2> QED
    BY <2>1, LimiterNumbers, LimiterConstants
<1>1. ASSUME NEW t \in Int, NEW u \in Int
      PROVE  /\ t > later => Passed(t, u)' = 0
             /\ t >= began => Passed(t, u)' <= past + reckoned
             /\ t >= later - Window => Passed(t, u)' <= past + Allowed + reckoned
  <2>1. Passed(t, u)' = Passed(t, u) /\ Passed(t, u) \in Nat
    BY NotThrough
  <2>2. /\ t > tick => Passed(t, u) = 0
        /\ t >= Began => Passed(t, u) <= Past + Counted
        /\ t >= tick - Window => Passed(t, u) <= Past + Allowed + Counted
    BY DEF LimiterInv
  <2>3. /\ t > later => Passed(t, u) = 0
        /\ t >= began => Passed(t, u) <= past + reckoned
        /\ t >= later - Window => Passed(t, u) <= past + Allowed + reckoned
    BY <1>0, <2>1, <2>2
  <2> QED
    BY <2>1, <2>3
<1>2. ASSUME NEW t \in Int
      PROVE  Passed(t, t + Window)' <= past + Allowed + Allowed
  <2>1. t + Window \in Int
    BY <1>0
  <2>2. Passed(t, t + Window)' = Passed(t, t + Window) /\ Passed(t, t + Window) \in Nat
    BY <2>1, NotThrough
  <2>3. Passed(t, t + Window) <= Past + Allowed + Allowed
    BY DEF LimiterInv
  <2>4. Passed(t, t + Window) <= past + Allowed + Allowed
    BY <1>0, <2>2, <2>3
  <2> QED
    BY <2>2, <2>4
<1>3. \/ Passed(limiter.resetTime - Window, limiter.resetTime)' >= limiter'.count
      \/ Passed(limiter.resetTime - Window, limiter.resetTime)' >= Allowed
  <2>1. CASE limiter' = limiter
    BY <2>1 DEF LimiterInv, Passed, Ticks
  <2>2. CASE limiter'.count = 0
    <3> DEFINE a == limiter'.resetTime - Window
               b == limiter'.resetTime
    <3>1. a \in Int /\ b \in Int
      BY <1>0 DEF LimiterTypes
    <3> HIDE DEF a, b
    <3>2. Passed(a, b) \in Nat
      BY <1>0, <3>1, PassedType
    <3>3. SumFunctionOnSet(admitted', Ticks(a, b)) >= 0
      BY <3>2 DEF Passed
    <3> QED
      BY <2>2, <3>3 DEF Passed, Ticks, a, b
  <2> QED
    BY <2>1, <2>2
<1>4. refused' => limiter'.count > Allowed
  BY DEF LimiterInv
<1> QED
  BY <1>1, <1>2, <1>3, <1>4 DEF LimiterInv

LEMMA LimiterKept ==
    ASSUME LimiterInv, [Access!NextLimiter]_limiterVars
    PROVE  LimiterInv'
<1>0. /\ LimiterTypes /\ tick \in Nat /\ limiter.count \in Nat /\ limiter.resetTime \in Int
      /\ Allowed \in Nat /\ Allowed > 0 /\ Window \in Nat /\ LimiterHorizon \in Nat
      /\ Began \in Int /\ Past \in Nat /\ Counted \in Nat /\ Counted <= Allowed /\ restarts \in Nat
      /\ tick <= LimiterHorizon
  <2>1. LimiterTypes
    BY DEF LimiterInv
  <2> QED
    BY <2>1, LimiterNumbers, LimiterConstants DEF LimiterTypes
<1>1. CASE UNCHANGED limiterVars
  BY <1>1 DEF LimiterInv, LimiterTypes, Access!Fresh, Passed, Ticks, Past, Counted, Began,
        limiterVars
<1>2. CASE Access!Check
  BY <1>2, CheckKeeps
<1>3. CASE Access!Cleanup
  <2>1. /\ Access!Fresh /\ limiter' = Access!NoRecord /\ ~refused'
        /\ UNCHANGED <<tick, admitted, restarts>>
    BY <1>3 DEF Access!Cleanup
  <2>2. LimiterTypes'
    <3>1. refused' \in BOOLEAN
      BY <1>3 DEF Access!Cleanup
    <3> QED
      BY <1>0, <2>1, <3>1, NoRecordType DEF LimiterTypes
  <2>3. limiter'.count = 0 /\ limiter'.resetTime = -1
    BY <2>1, NoRecordType
  <2>4. Access!Fresh'
    BY <1>0, <2>1, <2>3 DEF Access!Fresh
  <2>5. Began' = Began /\ Counted' = Counted /\ Past' = Past
    BY <2>1, <2>4 DEF Began, Counted, Past
  <2> QED
    BY <1>0, <2>1, <2>2, <2>3, <2>4, <2>5, BoundsKept
<1>4. CASE Access!Tick
  <2>1. /\ tick < LimiterHorizon /\ tick' = tick + 1
        /\ UNCHANGED <<limiter, admitted, refused, restarts>>
    BY <1>4 DEF Access!Tick
  <2>2. LimiterTypes'
    BY <1>0, <2>1 DEF LimiterTypes
  <2>3. Past' = Past
    BY <2>1 DEF Past
  <2>4. CASE Access!Fresh
    <3>1. Access!Fresh'
      BY <1>0, <2>1, <2>4 DEF Access!Fresh
    <3>2. Began = tick /\ Began' = tick + 1 /\ Counted' = Counted
      BY <2>1, <2>4, <3>1 DEF Began, Counted
    <3> QED
      BY <1>0, <2>1, <2>2, <2>3, <3>1, <3>2, BoundsKept
  <2>5. CASE ~Access!Fresh /\ limiter.resetTime >= tick + 1
    <3>1. ~Access!Fresh'
      BY <1>0, <2>1, <2>5 DEF Access!Fresh
    <3>2. Began' = Began /\ Counted' = Counted
      BY <2>1, <2>5, <3>1 DEF Began, Counted
    <3>3. limiter'.resetTime - Window <= tick'
      BY <1>0, <2>1, <2>5 DEF LimiterInv
    <3> QED
      BY <1>0, <2>1, <2>2, <2>3, <3>2, <3>3, BoundsKept
  <2>6. CASE ~Access!Fresh /\ limiter.resetTime = tick
    <3>1. Access!Fresh'
      BY <1>0, <2>1, <2>6 DEF Access!Fresh
    <3>2. Began = tick - Window /\ Began' = tick + 1 /\ Counted' = 0
      BY <2>1, <2>6, <3>1 DEF Began, Counted
    <3> QED
      BY <1>0, <2>1, <2>2, <2>3, <3>1, <3>2, BoundsKept
  <2>7. Access!Fresh \/ limiter.resetTime >= tick
    BY <1>0 DEF Access!Fresh
  <2> QED
    BY <1>0, <2>4, <2>5, <2>6, <2>7
<1>5. CASE Access!Restart
  <2>1. /\ restarts' = restarts + 1 /\ limiter' = Access!NoRecord /\ ~refused'
        /\ UNCHANGED <<tick, admitted>>
    BY <1>5 DEF Access!Restart
  <2>2. LimiterTypes'
    <3>1. refused' \in BOOLEAN
      BY <1>5 DEF Access!Restart
    <3> QED
      BY <1>0, <2>1, <3>1, NoRecordType DEF LimiterTypes
  <2>3. limiter'.count = 0 /\ limiter'.resetTime = -1
    BY <2>1, NoRecordType
  <2>4. Access!Fresh'
    BY <1>0, <2>1, <2>3 DEF Access!Fresh
  <2>5. Began' = tick /\ Counted' = 0 /\ Past' = Past + Allowed
    BY <1>0, <2>1, <2>4 DEF Began, Counted, Past
  <2>6. Began <= tick
    BY <1>0 DEF Began, LimiterInv
  <2>7. Past + Allowed \in Nat /\ tick' = tick
    BY <1>0, <2>1
  <2> QED
    BY <1>0, <2>1, <2>2, <2>3, <2>4, <2>5, <2>6, <2>7, BoundsKept
<1> QED
  BY <1>1, <1>2, <1>3, <1>4, <1>5 DEF Access!NextLimiter

LEMMA LimiterBegins ==
    ASSUME Access!InitLimiter
    PROVE  LimiterInv
<1>1. Allowed \in Nat /\ Window \in Nat /\ LimiterHorizon \in Nat
  BY LimiterConstants
<1>2. /\ limiter = [count |-> 0, resetTime |-> -1] /\ tick = 0 /\ restarts = 0 /\ refused = FALSE
      /\ admitted = [t \in 0..LimiterHorizon |-> 0]
  BY DEF Access!InitLimiter, Access!NoRecord
<1>3. LimiterTypes
  <2>1. limiter \in [count : Nat, resetTime : Int]
    BY NoRecordType DEF Access!InitLimiter
  <2>2. admitted \in [0..LimiterHorizon -> Nat] /\ 0 \in 0..LimiterHorizon
    BY <1>1, <1>2
  <2> QED
    BY <1>2, <2>1, <2>2 DEF LimiterTypes
<1>4. ASSUME NEW t \in Int, NEW u \in Int
      PROVE  Passed(t, u) = 0
  <2> DEFINE S == Ticks(t, u)
             none == [x \in S |-> 0]
  <2>1. IsFiniteSet(S) /\ \A x \in S : admitted[x] = 0
    BY <1>2, TicksAreFinite
  <2> HIDE DEF S
  <2>2. SumFunctionOnSet(admitted, S) = SumFunctionOnSet(none, S)
    BY <2>1, SumCongruence
  <2>3. SumFunction(none) = SumFunctionOnSet(none, S)
    BY DEF SumFunction
  <2>4. none \in [S -> Int] /\ \A x \in S : none[x] = 0
    OBVIOUS
  <2> HIDE DEF none
  <2>5. SumFunction(none) = 0
    BY <2>1, <2>4, SumOfZeros
  <2> QED
    BY <2>2, <2>3, <2>5 DEF Passed, S
<1>5. Access!Fresh
  BY <1>2 DEF Access!Fresh
<1>6. Past = 0 /\ Counted = 0
  BY <1>1, <1>2, <1>5 DEF Past, Counted
<1>7. \A t \in Int : Passed(t, t + Window) = 0
  BY <1>1, <1>4
<1>8. limiter.resetTime - Window \in Int /\ limiter.resetTime \in Int /\ limiter.count = 0
  BY <1>1, <1>2
<1>9. Passed(limiter.resetTime - Window, limiter.resetTime) >= limiter.count
  BY <1>4, <1>8
<1>10. \A t, u \in Int :
          /\ t > tick => Passed(t, u) = 0
          /\ t >= Began => Passed(t, u) <= Past + Counted
          /\ t >= tick - Window => Passed(t, u) <= Past + Allowed + Counted
  BY <1>1, <1>4, <1>6
<1>11. \A t \in Int : Passed(t, t + Window) <= Past + Allowed + Allowed
  BY <1>1, <1>6, <1>7
<1> QED
  BY <1>2, <1>3, <1>5, <1>9, <1>10, <1>11 DEF LimiterInv

LEMMA RequestsLimited ==
    ASSUME LimiterInv
    PROVE  Access!RequestsLimited
<1>0. /\ LimiterTypes /\ tick \in Nat /\ limiter.count \in Nat /\ limiter.resetTime \in Int
      /\ Allowed \in Nat /\ Window \in Nat /\ LimiterHorizon \in Nat /\ restarts \in Nat
      /\ Past \in Nat
  <2>1. LimiterTypes
    BY DEF LimiterInv
  <2> QED
    BY <2>1, LimiterNumbers, LimiterConstants
<1>1. Allowed * (2 + restarts) = Past + Allowed + Allowed
  BY <1>0 DEF Past
<1>2. ASSUME NEW t \in 0..LimiterHorizon
      PROVE  Access!Through(t, t + Window) <= Allowed * (2 + restarts)
  <2>1. t \in Int /\ t + Window \in Int
    BY <1>0
  <2>2. Access!Through(t, t + Window) = Passed(t, t + Window)
    BY <2>1, ThroughIsPassed
  <2> QED
    BY <1>1, <2>1, <2>2 DEF LimiterInv
<1>3. ASSUME refused
      PROVE  Access!Through(limiter.resetTime - Window, limiter.resetTime) >= Allowed
  <2>1. limiter.resetTime - Window \in Int
    BY <1>0
  <2>2. /\ Access!Through(limiter.resetTime - Window, limiter.resetTime)
             = Passed(limiter.resetTime - Window, limiter.resetTime)
        /\ Passed(limiter.resetTime - Window, limiter.resetTime) \in Nat
    BY <1>0, <2>1, ThroughIsPassed, PassedType
  <2> QED
    BY <1>0, <1>3, <2>2 DEF LimiterInv
<1> QED
  BY <1>2, <1>3 DEF Access!RequestsLimited

-----------------------------------------------------------------------------
\* The limits that requests run into at the same time: a merchant's keys, an address's
\* requests in any span as long as a window, and the account of a client's stream.

\* LimitsHold: a merchant has no more keys than it may have but for those that were
\* created at one time (api-keys.ts); an address gets no more through in any window's time
\* than two windows' requests, and more only by restarts (rate-limit.ts); and what a
\* client has streamed, has left, was refunded and has lost is what it deposited but for
\* less than a byte of each deposit (quota.rs).
THEOREM LimitsAreHeld == ServicesSpec => []LimitsHold
<1> DEFINE I == KeysInv /\ LimiterInv /\ QuotaInv
<1>1. ServicesInit => I
  BY KeysBegin, LimiterBegins, QuotaBegins DEF ServicesInit
<1>2. ASSUME I, [ServicesNext]_servicesVars
      PROVE  I'
  <2>1. [Access!Next]_accessVars
    BY <1>2 DEF ServicesNext, servicesVars
  <2>2. [Access!NextLimiter]_limiterVars
    BY <1>2 DEF ServicesNext, servicesVars
  <2>3. [Quota!Next]_quotaVars
    BY <1>2 DEF ServicesNext, servicesVars
  <2> QED
    <3>1. KeysInv'
      BY <1>2, <2>1, KeysTyped, KeysKept
    <3>2. LimiterInv'
      BY <1>2, <2>2, LimiterKept
    <3>3. QuotaInv'
      BY <1>2, <2>3, QuotaKept
    <3> QED
      BY <3>1, <3>2, <3>3
<1>3. I => LimitsHold
  BY KeysLimited, RequestsLimited, QuotaConserved DEF LimitsHold
<1> QED
  BY <1>1, <1>2, <1>3, PTL DEF ServicesSpec

-----------------------------------------------------------------------------
\* The spending policy of the CDP wallets, one transfer at a time. What has left the wallet
\* since a sum was set back is in the sum, but for a transfer that has still to be counted;
\* what has left it within an hour before is in the sum of before, which was within the
\* limit. The lemmas are about one sum, an hour's or a day's, and are used for both.
LeftIn(f, n, m) == SumFunctionOnSet(f, {t \in 0..PolicyHorizon : t >= n /\ t < m})
UpTo(x, sum, tr) ==
    x <= sum \/ \E t \in Workers : tr[t].pc = "done" /\ x <= sum + tr[t].amount

Transferring == [Workers -> [pc : {"idle", "create", "wait", "done"}, amount : Nat]]
AllIdle(tr) == \A t \in Workers : tr[t].pc = "idle"
OneOnly(tr) == \A t, u \in Workers : t = u \/ tr[t].pc = "idle" \/ tr[u].pc = "idle"

Rolls(f, tr, n0, reset, sum, ticks, limit) ==
    /\ reset <= n0
    /\ sum <= limit
    /\ \A t \in Workers : tr[t].pc # "idle" => sum + tr[t].amount <= limit
    /\ \A n, m \in Int :
          /\ n > n0 => LeftIn(f, n, m) = 0
          /\ n > reset => UpTo(LeftIn(f, n, m), sum, tr)
          /\ n > reset - ticks => UpTo(LeftIn(f, n, m), limit + sum, tr)
    /\ \A n \in Int : LeftIn(f, n, n + ticks) <= limit + limit

PolicyInv ==
    /\ Policy!TypeOK
    /\ ~crossing /\ ~missed =>
          /\ OneOnly(transfer)
          /\ Rolls(left, transfer, clock, spending.lastHourReset, spending.hourlySpend,
                   HourTicks, maxHourlySpend)
          /\ Rolls(left, transfer, clock, spending.lastDayReset, spending.dailySpend,
                   DayTicks, maxDailySpend)

LEMMA PolicyConstants ==
    /\ Amounts \subseteq Nat
    /\ maxTransactionAmount \in Nat /\ maxHourlySpend \in Nat /\ maxDailySpend \in Nat
    /\ HourTicks \in Nat /\ DayTicks \in Nat /\ PolicyHorizon \in Nat /\ MaxTransfers \in Nat
BY ServicesAssumption DEF Policy!PolicyAssumption

LEMMA SpansAreFinite ==
    ASSUME NEW n, NEW m
    PROVE  LET S == {t \in 0..PolicyHorizon : t >= n /\ t < m}
           IN  IsFiniteSet(S) /\ S \subseteq 0..PolicyHorizon
<1>1. IsFiniteSet(0..PolicyHorizon)
  BY PolicyConstants, FS_Interval
<1>2. {t \in 0..PolicyHorizon : t >= n /\ t < m} \subseteq 0..PolicyHorizon
  OBVIOUS
<1> QED
  BY <1>1, <1>2, FS_Subset

LEMMA LeftType ==
    ASSUME NEW f \in [0..PolicyHorizon -> Nat], NEW n \in Int, NEW m \in Int
    PROVE  LeftIn(f, n, m) \in Nat
<1> DEFINE S == {t \in 0..PolicyHorizon : t >= n /\ t < m}
<1>1. IsFiniteSet(S) /\ S \subseteq 0..PolicyHorizon
  BY SpansAreFinite
<1>2. \A t \in S : f[t] \in Int /\ f[t] >= 0
  BY <1>1
<1> HIDE DEF S
<1>3. SumFunctionOnSet(f, S) \in Int /\ SumFunctionOnSet(f, S) >= 0
  BY <1>1, <1>2, SumType
<1> QED
  BY <1>3 DEF LeftIn, S

\* A transfer leaves the wallet.
MoreAt(f, n, k) == [f EXCEPT ![n] = @ + k]

LEMMA LeftMoves ==
    ASSUME NEW f \in [0..PolicyHorizon -> Nat], NEW n0 \in 0..PolicyHorizon, NEW k \in Nat,
           NEW g, g = MoreAt(f, n0, k), NEW n \in Int, NEW m \in Int
    PROVE  LeftIn(g, n, m)
               = LeftIn(f, n, m) + (IF n <= n0 /\ n0 < m THEN k ELSE 0)
<1> DEFINE S == {t \in 0..PolicyHorizon : t >= n /\ t < m}
<1>1. IsFiniteSet(S) /\ S \subseteq 0..PolicyHorizon /\ (n0 \in S <=> (n <= n0 /\ n0 < m))
  BY SpansAreFinite
<1>2. MoreIn(S, f, g, n0, k)
  BY <1>1 DEF MoreIn, MoreAt
<1>3. LeftIn(f, n, m) = SumFunctionOnSet(f, S) /\ LeftIn(g, n, m) = SumFunctionOnSet(g, S)
  BY DEF LeftIn
<1> HIDE DEF S
<1>4. SumFunctionOnSet(g, S) = SumFunctionOnSet(f, S) + (IF n0 \in S THEN k ELSE 0)
  BY <1>1, <1>2, SomeMore
<1> QED
  BY <1>1, <1>3, <1>4

\* Time passes, or a transfer that was not on the chain goes on or is given up.
LEMMA RollsOn ==
    ASSUME NEW f \in [0..PolicyHorizon -> Nat], NEW tr \in Transferring, NEW tr2 \in Transferring,
           NEW n0 \in Int, NEW n1 \in Int, n1 >= n0,
           NEW reset \in Int, NEW sum \in Nat, NEW ticks \in Nat, NEW limit \in Nat,
           Rolls(f, tr, n0, reset, sum, ticks, limit),
           \A t \in Workers : /\ tr[t].pc = "done" => tr2[t] = tr[t]
                              /\ tr2[t].pc # "idle" =>
                                    tr[t].pc # "idle" /\ tr2[t].amount = tr[t].amount
    PROVE  Rolls(f, tr2, n1, reset, sum, ticks, limit)
<1>1. ASSUME NEW x \in Int, NEW s \in Nat, UpTo(x, s, tr)
      PROVE  UpTo(x, s, tr2)
  BY <1>1 DEF UpTo
<1>2. \A n, m \in Int : LeftIn(f, n, m) \in Int
  BY LeftType
<1>3. ASSUME NEW n \in Int, NEW m \in Int
      PROVE  /\ n > n1 => LeftIn(f, n, m) = 0
             /\ n > reset => UpTo(LeftIn(f, n, m), sum, tr2)
             /\ n > reset - ticks => UpTo(LeftIn(f, n, m), limit + sum, tr2)
  <2>1. limit + sum \in Nat
    OBVIOUS
  <2>2. /\ n > n0 => LeftIn(f, n, m) = 0
        /\ n > reset => UpTo(LeftIn(f, n, m), sum, tr)
        /\ n > reset - ticks => UpTo(LeftIn(f, n, m), limit + sum, tr)
    BY DEF Rolls
  <2>3. n > n1 => n > n0
    OBVIOUS
  <2> QED
    BY <1>1, <1>2, <2>1, <2>2, <2>3
<1>4. /\ reset <= n1 /\ sum <= limit
      /\ \A t \in Workers : tr2[t].pc # "idle" => sum + tr2[t].amount <= limit
      /\ \A n \in Int : LeftIn(f, n, n + ticks) <= limit + limit
  <2>1. /\ reset <= n0 /\ sum <= limit
        /\ \A t \in Workers : tr[t].pc # "idle" => sum + tr[t].amount <= limit
        /\ \A n \in Int : LeftIn(f, n, n + ticks) <= limit + limit
    BY DEF Rolls
  <2>2. reset <= n1
    BY <2>1
  <2>3. ASSUME NEW t \in Workers, tr2[t].pc # "idle"
        PROVE  sum + tr2[t].amount <= limit
    <3>1. tr[t].pc # "idle" /\ tr2[t].amount = tr[t].amount
      BY <2>3
    <3>2. sum + tr[t].amount <= limit
      BY <2>1, <3>1
    <3> QED
      BY <3>1, <3>2
  <2> QED
    BY <2>1, <2>2, <2>3
<1> QED
  BY <1>3, <1>4 DEF Rolls

\* A transfer leaves the wallet.
LEMMA RollsOut ==
    ASSUME NEW f \in [0..PolicyHorizon -> Nat], NEW tr \in Transferring, NEW tr2 \in Transferring,
           NEW n0 \in 0..PolicyHorizon,
           NEW reset \in Int, NEW sum \in Nat, NEW ticks \in Nat, NEW limit \in Nat,
           Rolls(f, tr, n0, reset, sum, ticks, limit),
           NEW t \in Workers, OneOnly(tr), tr[t].pc = "wait",
           tr2[t].pc = "done", tr2[t].amount = tr[t].amount,
           \A u \in Workers \ {t} : tr2[u] = tr[u],
           NEW g, g = f \/ g = MoreAt(f, n0, tr[t].amount)
    PROVE  Rolls(g, tr2, n0, reset, sum, ticks, limit)
<1> DEFINE a == tr[t].amount
<1>1. a \in Nat /\ sum + a <= limit
  BY DEF Rolls, Transferring
<1>2. ASSUME NEW x \in Int, NEW y \in Int, NEW s \in Nat, UpTo(x, s, tr), y <= x + a
      PROVE  UpTo(y, s, tr2)
  <2>1. x <= s
    <3>1. \A u \in Workers : tr[u].pc # "done"
      BY DEF OneOnly
    <3> QED
      BY <1>2, <3>1 DEF UpTo
  <2>2. y <= s + tr2[t].amount
    BY <1>1, <1>2, <2>1
  <2> QED
    BY <2>2 DEF UpTo
<1> HIDE DEF a
<1>3. n0 \in Int /\ reset <= n0
  BY DEF Rolls
<1>4. ASSUME NEW n \in Int, NEW m \in Int
      PROVE  /\ LeftIn(f, n, m) \in Nat /\ LeftIn(g, n, m) \in Nat
             /\ LeftIn(g, n, m) <= LeftIn(f, n, m) + a
             /\ n > n0 => LeftIn(g, n, m) = LeftIn(f, n, m)
             /\ m <= n0 => LeftIn(g, n, m) = LeftIn(f, n, m)
  <2>1. LeftIn(f, n, m) \in Nat
    BY LeftType
  <2>2. CASE g = f
    BY <1>1, <2>1, <2>2
  <2>3. CASE g = MoreAt(f, n0, a)
    <3>1. LeftIn(g, n, m) = LeftIn(f, n, m) + (IF n <= n0 /\ n0 < m THEN a ELSE 0)
      BY <1>1, <2>3, LeftMoves
    <3> QED
      BY <1>1, <1>3, <2>1, <3>1
  <2> QED
    BY <2>2, <2>3 DEF a
<1>5. ASSUME NEW n \in Int, NEW m \in Int
      PROVE  /\ n > n0 => LeftIn(g, n, m) = 0
             /\ n > reset => UpTo(LeftIn(g, n, m), sum, tr2)
             /\ n > reset - ticks => UpTo(LeftIn(g, n, m), limit + sum, tr2)
  <2>1. limit + sum \in Nat
    OBVIOUS
  <2>2. /\ n > n0 => LeftIn(f, n, m) = 0
        /\ n > reset => UpTo(LeftIn(f, n, m), sum, tr)
        /\ n > reset - ticks => UpTo(LeftIn(f, n, m), limit + sum, tr)
    BY DEF Rolls
  <2>3. /\ LeftIn(f, n, m) \in Nat /\ LeftIn(g, n, m) \in Nat
        /\ LeftIn(g, n, m) <= LeftIn(f, n, m) + a
        /\ n > n0 => LeftIn(g, n, m) = LeftIn(f, n, m)
    BY <1>4, Zenon
  <2>4. LeftIn(f, n, m) \in Int /\ LeftIn(g, n, m) \in Int
    BY <2>3
  <2>5. \A s \in Nat : UpTo(LeftIn(f, n, m), s, tr) => UpTo(LeftIn(g, n, m), s, tr2)
    BY <1>2, <2>3, <2>4
  <2> QED
    BY <2>1, <2>2, <2>3, <2>5
<1>6. ASSUME NEW n \in Int
      PROVE  LeftIn(g, n, n + ticks) <= limit + limit
  <2>1. n + ticks \in Int
    OBVIOUS
  <2>2. LeftIn(f, n, n + ticks) <= limit + limit
    BY DEF Rolls
  <2>3. CASE n + ticks <= n0
    BY <1>4, <2>1, <2>2, <2>3
  <2>4. CASE n + ticks > n0
    <3>1. n > reset - ticks
      BY <1>3, <2>4
    <3>2. UpTo(LeftIn(f, n, n + ticks), limit + sum, tr)
      BY <2>1, <3>1 DEF Rolls
    <3>3. LeftIn(f, n, n + ticks) <= limit + sum
      <4>1. \A u \in Workers : tr[u].pc # "done"
        BY DEF OneOnly
      <4> QED
        BY <3>2, <4>1 DEF UpTo
    <3>4. /\ LeftIn(f, n, n + ticks) \in Nat /\ LeftIn(g, n, n + ticks) \in Nat
          /\ LeftIn(g, n, n + ticks) <= LeftIn(f, n, n + ticks) + a
      BY <1>4, <2>1
    <3> QED
      BY <1>1, <3>3, <3>4
  <2> QED
    BY <1>3, <2>1, <2>3, <2>4
<1>7. /\ sum <= limit
      /\ \A u \in Workers : tr2[u].pc # "idle" => sum + tr2[u].amount <= limit
  <2>1. \A u \in Workers : tr[u].pc # "idle" => sum + tr[u].amount <= limit
    BY DEF Rolls
  <2> QED
    BY <2>1 DEF Rolls
<1> QED
  BY <1>3, <1>5, <1>6, <1>7 DEF Rolls

\* A transfer is counted.
LEMMA RollsIn ==
    ASSUME NEW f \in [0..PolicyHorizon -> Nat], NEW tr \in Transferring, NEW tr2 \in Transferring,
           NEW n0 \in Int,
           NEW reset \in Int, NEW sum \in Nat, NEW ticks \in Nat, NEW limit \in Nat,
           Rolls(f, tr, n0, reset, sum, ticks, limit),
           NEW t \in Workers, OneOnly(tr), tr[t].pc = "done", AllIdle(tr2)
    PROVE  Rolls(f, tr2, n0, reset, sum + tr[t].amount, ticks, limit)
<1> DEFINE a == tr[t].amount
<1>1. a \in Nat /\ sum + a <= limit
  BY DEF Rolls, Transferring
<1>2. ASSUME NEW x \in Int, NEW s \in Nat, UpTo(x, s, tr)
      PROVE  x <= s + a
  <2>1. \A u \in Workers : u = t \/ tr[u].pc # "done"
    BY DEF OneOnly
  <2> QED
    BY <1>1, <1>2, <2>1 DEF UpTo
<1> HIDE DEF a
<1>3. ASSUME NEW n \in Int, NEW m \in Int
      PROVE  /\ n > n0 => LeftIn(f, n, m) = 0
             /\ n > reset => UpTo(LeftIn(f, n, m), sum + a, tr2)
             /\ n > reset - ticks => UpTo(LeftIn(f, n, m), limit + (sum + a), tr2)
  <2>1. limit + sum \in Nat /\ LeftIn(f, n, m) \in Int
    BY LeftType
  <2>2. /\ n > n0 => LeftIn(f, n, m) = 0
        /\ n > reset => UpTo(LeftIn(f, n, m), sum, tr)
        /\ n > reset - ticks => UpTo(LeftIn(f, n, m), limit + sum, tr)
    BY DEF Rolls
  <2>3. /\ n > reset => LeftIn(f, n, m) <= sum + a
        /\ n > reset - ticks => LeftIn(f, n, m) <= limit + sum + a
    BY <1>2, <2>1, <2>2
  <2>4. limit + (sum + a) = limit + sum + a
    BY <1>1
  <2> QED
    BY <2>2, <2>3, <2>4 DEF UpTo
<1>4. /\ reset <= n0
      /\ \A u \in Workers : tr2[u].pc # "idle" => sum + a + tr2[u].amount <= limit
      /\ \A n \in Int : LeftIn(f, n, n + ticks) <= limit + limit
  BY DEF Rolls, AllIdle
<1> QED
  BY <1>1, <1>3, <1>4 DEF Rolls, a

\* The sum is set back if it is time to.
LEMMA RollsBack ==
    ASSUME NEW f \in [0..PolicyHorizon -> Nat], NEW tr \in Transferring, AllIdle(tr),
           NEW n0 \in Int,
           NEW reset \in Int, NEW sum \in Nat, NEW ticks \in Nat, NEW limit \in Nat,
           Rolls(f, tr, n0, reset, sum, ticks, limit), n0 - reset >= ticks
    PROVE  Rolls(f, tr, n0, n0, 0, ticks, limit)
<1>1. ASSUME NEW x \in Int, NEW s \in Nat, UpTo(x, s, tr)
      PROVE  x <= s
  BY <1>1 DEF UpTo, AllIdle
<1>2. ASSUME NEW n \in Int, NEW m \in Int
      PROVE  /\ n > n0 => LeftIn(f, n, m) = 0
             /\ n > n0 => UpTo(LeftIn(f, n, m), 0, tr)
             /\ n > n0 - ticks => UpTo(LeftIn(f, n, m), limit + 0, tr)
  <2>1. LeftIn(f, n, m) \in Int
    BY LeftType
  <2>2. /\ n > n0 => LeftIn(f, n, m) = 0
        /\ n > reset => UpTo(LeftIn(f, n, m), sum, tr)
        /\ sum <= limit
    BY DEF Rolls
  <2>3. n > n0 - ticks => n > reset
    OBVIOUS
  <2>4. n > n0 - ticks => LeftIn(f, n, m) <= limit + 0
    BY <1>1, <2>1, <2>2, <2>3
  <2> QED
    BY <2>2, <2>4 DEF UpTo
<1>3. /\ n0 <= n0 /\ 0 <= limit
      /\ \A t \in Workers : tr[t].pc # "idle" => 0 + tr[t].amount <= limit
      /\ \A n \in Int : LeftIn(f, n, n + ticks) <= limit + limit
  BY DEF Rolls, AllIdle
<1> QED
  BY <1>2, <1>3 DEF Rolls

\* A transfer begins that is within the limit.
LEMMA RollsUp ==
    ASSUME NEW f \in [0..PolicyHorizon -> Nat], NEW tr \in Transferring, AllIdle(tr),
           NEW tr2 \in Transferring, NEW n0 \in Int,
           NEW reset \in Int, NEW sum \in Nat, NEW ticks \in Nat, NEW limit \in Nat,
           Rolls(f, tr, n0, reset, sum, ticks, limit),
           \A t \in Workers : /\ tr2[t].pc # "done"
                              /\ tr2[t].pc # "idle" => sum + tr2[t].amount <= limit
    PROVE  Rolls(f, tr2, n0, reset, sum, ticks, limit)
<1>1. ASSUME NEW x \in Int, NEW s \in Nat, UpTo(x, s, tr)
      PROVE  UpTo(x, s, tr2)
  BY <1>1 DEF UpTo, AllIdle
<1>2. ASSUME NEW n \in Int, NEW m \in Int
      PROVE  /\ n > n0 => LeftIn(f, n, m) = 0
             /\ n > reset => UpTo(LeftIn(f, n, m), sum, tr2)
             /\ n > reset - ticks => UpTo(LeftIn(f, n, m), limit + sum, tr2)
  <2>1. limit + sum \in Nat /\ LeftIn(f, n, m) \in Int
    BY LeftType
  <2>2. /\ n > n0 => LeftIn(f, n, m) = 0
        /\ n > reset => UpTo(LeftIn(f, n, m), sum, tr)
        /\ n > reset - ticks => UpTo(LeftIn(f, n, m), limit + sum, tr)
    BY DEF Rolls
  <2> QED
    BY <1>1, <2>1, <2>2
<1> QED
  BY <1>2 DEF Rolls

\* The two sums after checkSpendingLimit has set back what it has to
Sums == [hourlySpend : Nat, dailySpend : Nat, lastHourReset : 0..PolicyHorizon,
         lastDayReset : 0..PolicyHorizon]
Overdue(reset, ticks) == clock - reset >= ticks

LEMMA SumsSetBack ==
    ASSUME NEW s \in Sums, clock \in 0..PolicyHorizon,
           NEW z, z = Policy!ResetDay(Policy!ResetHour(s))
    PROVE  /\ z \in Sums
           /\ IF Overdue(s.lastHourReset, HourTicks)
              THEN z.hourlySpend = 0 /\ z.lastHourReset = clock
              ELSE z.hourlySpend = s.hourlySpend /\ z.lastHourReset = s.lastHourReset
           /\ IF Overdue(s.lastDayReset, DayTicks)
              THEN z.dailySpend = 0 /\ z.lastDayReset = clock
              ELSE z.dailySpend = s.dailySpend /\ z.lastDayReset = s.lastDayReset
<1> DEFINE y == Policy!ResetHour(s)
<1>1. /\ y \in Sums /\ y.dailySpend = s.dailySpend /\ y.lastDayReset = s.lastDayReset
      /\ IF Overdue(s.lastHourReset, HourTicks)
         THEN y.hourlySpend = 0 /\ y.lastHourReset = clock
         ELSE y.hourlySpend = s.hourlySpend /\ y.lastHourReset = s.lastHourReset
  <2>1. CASE Overdue(s.lastHourReset, HourTicks)
    <3> DEFINE x == [s EXCEPT !.hourlySpend = 0]
    <3>1. /\ x \in Sums /\ x.dailySpend = s.dailySpend /\ x.lastDayReset = s.lastDayReset
          /\ x.hourlySpend = 0
      BY DEF Sums
    <3>2. y = [x EXCEPT !.lastHourReset = clock]
      BY <2>1 DEF Policy!ResetHour, Overdue
    <3> HIDE DEF x, y
    <3> QED
      BY <2>1, <3>1, <3>2 DEF Sums
  <2>2. CASE ~Overdue(s.lastHourReset, HourTicks)
    BY <2>2 DEF Policy!ResetHour, Overdue
  <2> QED
    BY <2>1, <2>2
<1>2. z = Policy!ResetDay(y)
  OBVIOUS
<1> HIDE DEF y
<1>3. CASE Overdue(s.lastDayReset, DayTicks)
  <2> DEFINE x == [y EXCEPT !.dailySpend = 0]
  <2>1. /\ x \in Sums /\ x.hourlySpend = y.hourlySpend /\ x.lastHourReset = y.lastHourReset
        /\ x.dailySpend = 0
    BY <1>1 DEF Sums
  <2>2. z = [x EXCEPT !.lastDayReset = clock]
    BY <1>1, <1>2, <1>3 DEF Policy!ResetDay, Overdue
  <2> HIDE DEF x
  <2>3. /\ z \in Sums /\ z.hourlySpend = y.hourlySpend /\ z.lastHourReset = y.lastHourReset
        /\ z.dailySpend = 0 /\ z.lastDayReset = clock
    BY <2>1, <2>2 DEF Sums
  <2> QED
    BY <1>1, <1>3, <2>3
<1>4. CASE ~Overdue(s.lastDayReset, DayTicks)
  <2>1. z = y
    BY <1>1, <1>2, <1>4 DEF Policy!ResetDay, Overdue
  <2> QED
    BY <1>1, <1>4, <2>1
<1> QED
  BY <1>3, <1>4

BothMore(s, a) == [s EXCEPT !.hourlySpend = @ + a, !.dailySpend = @ + a]

LEMMA SumsCount ==
    ASSUME NEW s \in Sums, NEW a \in Nat, NEW z, z = BothMore(s, a)
    PROVE  /\ z \in Sums
           /\ z.hourlySpend = s.hourlySpend + a /\ z.lastHourReset = s.lastHourReset
           /\ z.dailySpend = s.dailySpend + a /\ z.lastDayReset = s.lastDayReset
<1> DEFINE x == [s EXCEPT !.hourlySpend = s.hourlySpend + a]
<1>1. /\ x \in Sums /\ x.hourlySpend = s.hourlySpend + a /\ x.lastHourReset = s.lastHourReset
      /\ x.dailySpend = s.dailySpend /\ x.lastDayReset = s.lastDayReset
  BY DEF Sums
<1>2. z = [x EXCEPT !.dailySpend = s.dailySpend + a]
  BY DEF BothMore
<1> HIDE DEF x
<1> QED
  BY <1>1, <1>2 DEF Sums

LEMMA PolicyTypes ==
    ASSUME Policy!TypeOK
    PROVE  /\ clock \in 0..PolicyHorizon /\ clock \in Int
           /\ spending \in Sums
           /\ spending.hourlySpend \in Nat /\ spending.lastHourReset \in Int
           /\ spending.dailySpend \in Nat /\ spending.lastDayReset \in Int
           /\ transfer \in Transferring
           /\ \A t \in Workers : transfer[t].amount \in Nat
           /\ left \in [0..PolicyHorizon -> Nat]
           /\ HourTicks \in Nat /\ DayTicks \in Nat
           /\ maxHourlySpend \in Nat /\ maxDailySpend \in Nat
<1>1. clock \in 0..PolicyHorizon /\ spending \in Sums /\ left \in [0..PolicyHorizon -> Nat]
  BY DEF Policy!TypeOK, Sums
<1>2. /\ spending.hourlySpend \in Nat /\ spending.lastHourReset \in Int
      /\ spending.dailySpend \in Nat /\ spending.lastDayReset \in Int
  BY <1>1, PolicyConstants DEF Sums
<1>3. Amounts \cup {0} \subseteq Nat
  BY PolicyConstants
<1>4. transfer \in Transferring /\ \A t \in Workers : transfer[t].amount \in Nat
  BY <1>3 DEF Policy!TypeOK, Transferring
<1> QED
  BY <1>1, <1>2, <1>4, PolicyConstants

LEMMA PolicyTyped ==
    ASSUME Policy!TypeOK, [Policy!Next]_policyVars
    PROVE  Policy!TypeOK'
<1> DEFINE T == [Workers -> [pc : {"idle", "create", "wait", "done"}, amount : Amounts \cup {0}]]
<1>0. /\ transfer \in T /\ missed \in BOOLEAN /\ crossing \in BOOLEAN /\ created \in 0..MaxTransfers
      /\ clock \in 0..PolicyHorizon /\ spending \in Sums /\ left \in [0..PolicyHorizon -> Nat]
  BY DEF Policy!TypeOK, Sums
<1>1. ASSUME NEW t \in Workers, Policy!Check(t)
      PROVE  /\ transfer' \in T /\ missed' \in BOOLEAN /\ crossing' \in BOOLEAN
             /\ created' \in 0..MaxTransfers /\ clock' \in 0..PolicyHorizon /\ spending' \in Sums
             /\ left' \in [0..PolicyHorizon -> Nat]
  <2>1. spending' \in Sums
    <3>1. spending' = Policy!ResetDay(Policy!ResetHour(spending))
      BY <1>1 DEF Policy!Check
    <3> QED
      BY <1>0, <3>1, SumsSetBack
  <2>2. transfer' \in T
    BY <1>0, <1>1 DEF Policy!Check
  <2> QED
    BY <1>0, <1>1, <2>1, <2>2, PolicyConstants DEF Policy!Check
<1>2. ASSUME NEW t \in Workers, Policy!Create(t) \/ Policy!Land(t) \/ Policy!Count(t)
                 \/ Policy!Miss(t)
      PROVE  /\ transfer' \in T /\ missed' \in BOOLEAN /\ crossing' \in BOOLEAN
             /\ created' \in 0..MaxTransfers /\ clock' \in 0..PolicyHorizon /\ spending' \in Sums
             /\ left' \in [0..PolicyHorizon -> Nat]
  <2>1. transfer' \in T
    BY <1>0, <1>2 DEF Policy!Create, Policy!Land, Policy!Count, Policy!Miss, Policy!Goto,
          Policy!Return, Policy!Idle
  <2>2. transfer[t].amount \in Nat
    BY PolicyTypes
  <2>3. left' \in [0..PolicyHorizon -> Nat]
    BY <1>0, <1>2, <2>2 DEF Policy!Create, Policy!Land, Policy!Count, Policy!Miss
  <2>4. spending' \in Sums
    <3>1. spending' = spending \/ spending' = BothMore(spending, transfer[t].amount)
      BY <1>2 DEF Policy!Create, Policy!Land, Policy!Count, Policy!Miss, BothMore
    <3> QED
      BY <1>0, <2>2, <3>1, SumsCount
  <2> QED
    BY <1>0, <1>2, <2>1, <2>3, <2>4 DEF Policy!Create, Policy!Land, Policy!Count, Policy!Miss
<1>3. ASSUME Policy!Tick
      PROVE  /\ transfer' \in T /\ missed' \in BOOLEAN /\ crossing' \in BOOLEAN
             /\ created' \in 0..MaxTransfers /\ clock' \in 0..PolicyHorizon /\ spending' \in Sums
             /\ left' \in [0..PolicyHorizon -> Nat]
  BY <1>0, <1>3, PolicyConstants DEF Policy!Tick
<1>4. ASSUME UNCHANGED policyVars
      PROVE  /\ transfer' \in T /\ missed' \in BOOLEAN /\ crossing' \in BOOLEAN
             /\ created' \in 0..MaxTransfers /\ clock' \in 0..PolicyHorizon /\ spending' \in Sums
             /\ left' \in [0..PolicyHorizon -> Nat]
  BY <1>0, <1>4 DEF policyVars
<1>5. /\ transfer' \in T /\ missed' \in BOOLEAN /\ crossing' \in BOOLEAN
      /\ created' \in 0..MaxTransfers /\ clock' \in 0..PolicyHorizon /\ spending' \in Sums
      /\ left' \in [0..PolicyHorizon -> Nat]
  <2> HIDE DEF T
  <2> QED
    BY <1>1, <1>2, <1>3, <1>4 DEF Policy!Next
<1> QED
  BY <1>5 DEF Policy!TypeOK, Sums

\* One sum, and a step of one transfer
LEMMA OneStaysOnly ==
    ASSUME NEW tr \in Transferring, NEW tr2 \in Transferring, OneOnly(tr),
           \A t \in Workers : tr2[t].pc # "idle" => tr[t].pc # "idle"
    PROVE  OneOnly(tr2)
BY DEF OneOnly

LEMMA PolicyKept ==
    ASSUME PolicyInv, [Policy!Next]_policyVars
    PROVE  PolicyInv'
<1>0. /\ Policy!TypeOK /\ Policy!TypeOK'
      /\ clock \in 0..PolicyHorizon /\ clock \in Int /\ clock' \in Int
      /\ spending \in Sums
      /\ spending.hourlySpend \in Nat /\ spending.lastHourReset \in Int
      /\ spending.dailySpend \in Nat /\ spending.lastDayReset \in Int
      /\ transfer \in Transferring /\ transfer' \in Transferring
      /\ \A t \in Workers : transfer[t].amount \in Nat
      /\ left \in [0..PolicyHorizon -> Nat]
      /\ HourTicks \in Nat /\ DayTicks \in Nat
      /\ maxHourlySpend \in Nat /\ maxDailySpend \in Nat
      /\ Amounts \subseteq Nat
  <2>1. Policy!TypeOK /\ Policy!TypeOK'
    BY PolicyTyped DEF PolicyInv
  <2>2. clock' \in Int /\ transfer' \in Transferring
    <3>1. clock' \in 0..PolicyHorizon
      BY <2>1 DEF Policy!TypeOK
    <3>2. Amounts \cup {0} \subseteq Nat
      BY PolicyConstants
    <3> QED
      BY <2>1, <3>1, <3>2 DEF Policy!TypeOK, Transferring
  <2> QED
    BY <2>1, <2>2, PolicyTypes, PolicyConstants
<1>1. SUFFICES ASSUME ~crossing', ~missed'
               PROVE  /\ OneOnly(transfer')
                      /\ Rolls(left', transfer', clock', spending'.lastHourReset,
                               spending'.hourlySpend, HourTicks, maxHourlySpend)
                      /\ Rolls(left', transfer', clock', spending'.lastDayReset,
                               spending'.dailySpend, DayTicks, maxDailySpend)
  BY <1>0 DEF PolicyInv
<1>2. /\ ~crossing /\ ~missed
      /\ OneOnly(transfer)
      /\ Rolls(left, transfer, clock, spending.lastHourReset, spending.hourlySpend,
               HourTicks, maxHourlySpend)
      /\ Rolls(left, transfer, clock, spending.lastDayReset, spending.dailySpend,
               DayTicks, maxDailySpend)
  <2>1. ~crossing /\ ~missed
    <3>0. crossing \in BOOLEAN /\ missed \in BOOLEAN
      BY <1>0 DEF Policy!TypeOK
    <3>1. ASSUME NEW t \in Workers, Policy!Check(t) \/ Policy!Create(t) \/ Policy!Land(t)
                                      \/ Policy!Count(t) \/ Policy!Miss(t)
          PROVE  ~crossing /\ ~missed
      <4>1. CASE Policy!Check(t)
        BY <1>1, <3>0, <4>1 DEF Policy!Check
      <4>2. CASE Policy!Create(t)
        BY <1>1, <4>2 DEF Policy!Create
      <4>3. CASE Policy!Land(t)
        BY <1>1, <4>3 DEF Policy!Land
      <4>4. CASE Policy!Count(t)
        BY <1>1, <4>4 DEF Policy!Count
      <4>5. CASE Policy!Miss(t)
        BY <1>1, <4>5 DEF Policy!Miss
      <4> QED
        BY <3>1, <4>1, <4>2, <4>3, <4>4, <4>5
    <3>2. ASSUME Policy!Tick \/ UNCHANGED policyVars
          PROVE  ~crossing /\ ~missed
      BY <1>1, <3>2 DEF Policy!Tick, policyVars
    <3> QED
      BY <3>1, <3>2 DEF Policy!Next
  <2> QED
    BY <2>1 DEF PolicyInv
<1>3. ASSUME NEW t \in Workers, Policy!Check(t)
      PROVE  /\ OneOnly(transfer')
             /\ Rolls(left', transfer', clock', spending'.lastHourReset,
                      spending'.hourlySpend, HourTicks, maxHourlySpend)
             /\ Rolls(left', transfer', clock', spending'.lastDayReset,
                      spending'.dailySpend, DayTicks, maxDailySpend)
  <2>1. AllIdle(transfer)
    BY <1>1, <1>3 DEF Policy!Check, AllIdle
  <2>2. /\ clock' = clock /\ left' = left
        /\ spending' \in Sums
        /\ IF Overdue(spending.lastHourReset, HourTicks)
           THEN spending'.hourlySpend = 0 /\ spending'.lastHourReset = clock
           ELSE spending'.hourlySpend = spending.hourlySpend
                  /\ spending'.lastHourReset = spending.lastHourReset
        /\ IF Overdue(spending.lastDayReset, DayTicks)
           THEN spending'.dailySpend = 0 /\ spending'.lastDayReset = clock
           ELSE spending'.dailySpend = spending.dailySpend
                  /\ spending'.lastDayReset = spending.lastDayReset
    <3>1. /\ clock' = clock /\ left' = left
          /\ spending' = Policy!ResetDay(Policy!ResetHour(spending))
      BY <1>3 DEF Policy!Check
    <3> QED
      BY <1>0, <3>1, SumsSetBack
  <2>3. /\ spending'.hourlySpend \in Nat /\ spending'.lastHourReset \in Int
        /\ spending'.dailySpend \in Nat /\ spending'.lastDayReset \in Int
    BY <2>2, PolicyConstants DEF Sums
  <2>4. Rolls(left, transfer, clock, spending'.lastHourReset, spending'.hourlySpend,
              HourTicks, maxHourlySpend)
    <3>1. CASE Overdue(spending.lastHourReset, HourTicks)
      BY <1>0, <1>2, <2>1, <2>2, <3>1, RollsBack, ZenonT(40) DEF Overdue
    <3>2. CASE ~Overdue(spending.lastHourReset, HourTicks)
      BY <1>2, <2>2, <3>2
    <3> QED
      BY <3>1, <3>2
  <2>5. Rolls(left, transfer, clock, spending'.lastDayReset, spending'.dailySpend,
              DayTicks, maxDailySpend)
    <3>1. CASE Overdue(spending.lastDayReset, DayTicks)
      BY <1>0, <1>2, <2>1, <2>2, <3>1, RollsBack, ZenonT(40) DEF Overdue
    <3>2. CASE ~Overdue(spending.lastDayReset, DayTicks)
      BY <1>2, <2>2, <3>2
    <3> QED
      BY <3>1, <3>2
  <2>6. /\ \A u \in Workers : transfer'[u].pc # "done"
        /\ \A u \in Workers : transfer'[u].pc # "idle" =>
              /\ u = t
              /\ spending'.hourlySpend + transfer'[u].amount <= maxHourlySpend
              /\ spending'.dailySpend + transfer'[u].amount <= maxDailySpend
    <3>1. PICK a \in Amounts :
             \/ Policy!Within(spending', a)
                  /\ transfer' = [transfer EXCEPT ![t] = [pc |-> "create", amount |-> a]]
             \/ UNCHANGED transfer
      BY <1>3 DEF Policy!Check
    <3>2. CASE UNCHANGED transfer
      BY <2>1, <3>2 DEF AllIdle
    <3>3. CASE /\ Policy!Within(spending', a)
               /\ transfer' = [transfer EXCEPT ![t] = [pc |-> "create", amount |-> a]]
      BY <1>0, <2>1, <3>3 DEF AllIdle, Policy!Within, Transferring
    <3> QED
      BY <3>1, <3>2, <3>3
  <2>7. Rolls(left, transfer', clock, spending'.lastHourReset, spending'.hourlySpend,
              HourTicks, maxHourlySpend)
    BY <1>0, <2>1, <2>3, <2>4, <2>6, RollsUp
  <2>8. Rolls(left, transfer', clock, spending'.lastDayReset, spending'.dailySpend,
              DayTicks, maxDailySpend)
    BY <1>0, <2>1, <2>3, <2>5, <2>6, RollsUp
  <2>9. OneOnly(transfer')
    BY <2>6 DEF OneOnly
  <2> QED
    BY <2>2, <2>7, <2>8, <2>9
<1>4. ASSUME clock' >= clock, UNCHANGED <<left, spending>>,
             \A t \in Workers :
                 /\ transfer[t].pc = "done" => transfer'[t] = transfer[t]
                 /\ transfer'[t].pc # "idle" =>
                       transfer[t].pc # "idle" /\ transfer'[t].amount = transfer[t].amount
      PROVE  /\ OneOnly(transfer')
             /\ Rolls(left', transfer', clock', spending'.lastHourReset,
                      spending'.hourlySpend, HourTicks, maxHourlySpend)
             /\ Rolls(left', transfer', clock', spending'.lastDayReset,
                      spending'.dailySpend, DayTicks, maxDailySpend)
  <2>1. Rolls(left, transfer', clock', spending.lastHourReset, spending.hourlySpend,
              HourTicks, maxHourlySpend)
    BY <1>0, <1>2, <1>4, RollsOn
  <2>2. Rolls(left, transfer', clock', spending.lastDayReset, spending.dailySpend,
              DayTicks, maxDailySpend)
    BY <1>0, <1>2, <1>4, RollsOn
  <2>3. OneOnly(transfer')
    BY <1>0, <1>2, <1>4, OneStaysOnly
  <2> QED
    BY <1>4, <2>1, <2>2, <2>3
<1>5. ASSUME NEW t \in Workers, Policy!Create(t)
      PROVE  /\ OneOnly(transfer')
             /\ Rolls(left', transfer', clock', spending'.lastHourReset,
                      spending'.hourlySpend, HourTicks, maxHourlySpend)
             /\ Rolls(left', transfer', clock', spending'.lastDayReset,
                      spending'.dailySpend, DayTicks, maxDailySpend)
  <2>1. clock' = clock /\ UNCHANGED <<left, spending>>
    BY <1>5 DEF Policy!Create
  <2>2. ASSUME NEW u \in Workers
        PROVE  /\ transfer[u].pc = "done" => transfer'[u] = transfer[u]
               /\ transfer'[u].pc # "idle" =>
                     transfer[u].pc # "idle" /\ transfer'[u].amount = transfer[u].amount
    BY <1>0, <1>5 DEF Policy!Create, Policy!Goto, Policy!Return, Policy!Idle, Transferring
  <2> QED
    BY <1>0, <1>4, <2>1, <2>2
<1>6. ASSUME NEW t \in Workers, Policy!Land(t)
      PROVE  /\ OneOnly(transfer')
             /\ Rolls(left', transfer', clock', spending'.lastHourReset,
                      spending'.hourlySpend, HourTicks, maxHourlySpend)
             /\ Rolls(left', transfer', clock', spending'.lastDayReset,
                      spending'.dailySpend, DayTicks, maxDailySpend)
  <2>1. /\ clock' = clock /\ spending' = spending /\ transfer[t].pc = "wait"
        /\ left' = left \/ left' = MoreAt(left, clock, transfer[t].amount)
        /\ transfer'[t].pc = "done" /\ transfer'[t].amount = transfer[t].amount
        /\ \A u \in Workers \ {t} : transfer'[u] = transfer[u]
    BY <1>0, <1>6 DEF Policy!Land, Policy!Goto, Transferring, MoreAt
  <2>2. Rolls(left', transfer', clock, spending.lastHourReset, spending.hourlySpend,
              HourTicks, maxHourlySpend)
    <3>1. ASSUME NEW g, g = left \/ g = MoreAt(left, clock, transfer[t].amount)
          PROVE  Rolls(g, transfer', clock, spending.lastHourReset, spending.hourlySpend,
                       HourTicks, maxHourlySpend)
      BY <1>0, <1>2, <2>1, <3>1, RollsOut
    <3> QED
      BY <2>1, <3>1
  <2>3. Rolls(left', transfer', clock, spending.lastDayReset, spending.dailySpend,
              DayTicks, maxDailySpend)
    <3>1. ASSUME NEW g, g = left \/ g = MoreAt(left, clock, transfer[t].amount)
          PROVE  Rolls(g, transfer', clock, spending.lastDayReset, spending.dailySpend,
                       DayTicks, maxDailySpend)
      BY <1>0, <1>2, <2>1, <3>1, RollsOut
    <3> QED
      BY <2>1, <3>1
  <2>4. OneOnly(transfer')
    <3>1. \A u \in Workers : transfer'[u].pc # "idle" => transfer[u].pc # "idle"
      BY <2>1
    <3> QED
      BY <1>0, <1>2, <3>1, OneStaysOnly
  <2> QED
    BY <2>1, <2>2, <2>3, <2>4
<1>7. ASSUME NEW t \in Workers, Policy!Count(t)
      PROVE  /\ OneOnly(transfer')
             /\ Rolls(left', transfer', clock', spending'.lastHourReset,
                      spending'.hourlySpend, HourTicks, maxHourlySpend)
             /\ Rolls(left', transfer', clock', spending'.lastDayReset,
                      spending'.dailySpend, DayTicks, maxDailySpend)
  <2>1. /\ clock' = clock /\ left' = left /\ transfer[t].pc = "done"
        /\ spending' = BothMore(spending, transfer[t].amount)
    BY <1>7 DEF Policy!Count, BothMore
  <2>2. /\ spending'.hourlySpend = spending.hourlySpend + transfer[t].amount
        /\ spending'.lastHourReset = spending.lastHourReset
        /\ spending'.dailySpend = spending.dailySpend + transfer[t].amount
        /\ spending'.lastDayReset = spending.lastDayReset
    BY <1>0, <2>1, SumsCount, ZenonT(40)
  <2>3. AllIdle(transfer')
    BY <1>0, <1>2, <1>7 DEF AllIdle, OneOnly, Policy!Count, Policy!Return, Policy!Idle, Transferring
  <2>4. Rolls(left, transfer', clock, spending.lastHourReset,
              spending.hourlySpend + transfer[t].amount, HourTicks, maxHourlySpend)
    BY <1>0, <1>2, <2>1, <2>3, RollsIn
  <2>5. Rolls(left, transfer', clock, spending.lastDayReset,
              spending.dailySpend + transfer[t].amount, DayTicks, maxDailySpend)
    BY <1>0, <1>2, <2>1, <2>3, RollsIn
  <2> QED
    BY <2>1, <2>2, <2>3, <2>4, <2>5 DEF AllIdle, OneOnly
<1>8. ASSUME Policy!Tick \/ UNCHANGED policyVars
      PROVE  /\ OneOnly(transfer')
             /\ Rolls(left', transfer', clock', spending'.lastHourReset,
                      spending'.hourlySpend, HourTicks, maxHourlySpend)
             /\ Rolls(left', transfer', clock', spending'.lastDayReset,
                      spending'.dailySpend, DayTicks, maxDailySpend)
  <2>1. clock' >= clock /\ UNCHANGED <<left, spending, transfer>>
    BY <1>0, <1>8 DEF Policy!Tick, policyVars
  <2> QED
    BY <1>4, <2>1
<1>9. ASSUME NEW t \in Workers, Policy!Miss(t)
      PROVE  FALSE
  BY <1>1, <1>9 DEF Policy!Miss
<1> QED
  BY <1>3, <1>5, <1>6, <1>7, <1>8, <1>9 DEF Policy!Next

LEMMA PolicyBegins ==
    ASSUME Policy!Init
    PROVE  PolicyInv
<1>1. Policy!TypeOK
  <2>1. 0 \in 0..PolicyHorizon /\ 0 \in 0..MaxTransfers /\ 0 \in Nat /\ 0 \in Amounts \cup {0}
    BY PolicyConstants
  <2>2. spending \in Sums
    BY <2>1 DEF Policy!Init, Sums
  <2>3. left \in [0..PolicyHorizon -> Nat]
    BY <2>1 DEF Policy!Init
  <2>4. transfer \in [Workers -> [pc : {"idle", "create", "wait", "done"},
            amount : Amounts \cup {0}]]
    BY <2>1 DEF Policy!Init, Policy!Idle
  <2> QED
    BY <2>1, <2>2, <2>3, <2>4 DEF Policy!Init, Policy!TypeOK, Sums
<1>2. AllIdle(transfer) /\ OneOnly(transfer)
  BY DEF Policy!Init, Policy!Idle, AllIdle, OneOnly
<1>3. ASSUME NEW n \in Int, NEW m \in Int
      PROVE  LeftIn(left, n, m) = 0
  <2> DEFINE S == {t \in 0..PolicyHorizon : t >= n /\ t < m}
  <2>1. IsFiniteSet(S) /\ S \subseteq 0..PolicyHorizon
    BY SpansAreFinite
  <2>2. \A t \in S : left[t] = 0
    BY <2>1 DEF Policy!Init
  <2>3. LeftIn(left, n, m) = SumFunctionOnSet(left, S)
    BY DEF LeftIn
  <2> HIDE DEF S
  <2> DEFINE z == [t \in S |-> 0]
  <2>4. SumFunctionOnSet(left, S) = SumFunctionOnSet(z, S)
    <3>1. \A t \in S : left[t] = z[t]
      BY <2>2
    <3> QED
      BY <2>1, <3>1, SumCongruence
  <2>5. SumFunction(z) = 0
    <3>1. z \in [S -> Int] /\ \A t \in S : z[t] = 0
      OBVIOUS
    <3> HIDE DEF z
    <3> QED
      BY <2>1, <3>1, SumOfZeros
  <2>6. SumFunctionOnSet(z, S) = SumFunction(z)
    BY DEF SumFunction
  <2> QED
    BY <2>3, <2>4, <2>5, <2>6
<1>4. ASSUME NEW ticks \in Nat, NEW limit \in Nat
      PROVE  Rolls(left, transfer, 0, 0, 0, ticks, limit)
  <2>1. ASSUME NEW n \in Int, NEW m \in Int
        PROVE  /\ n > 0 => LeftIn(left, n, m) = 0
               /\ n > 0 => UpTo(LeftIn(left, n, m), 0, transfer)
               /\ n > 0 - ticks => UpTo(LeftIn(left, n, m), limit + 0, transfer)
    BY <1>3 DEF UpTo
  <2>2. ASSUME NEW n \in Int
        PROVE  LeftIn(left, n, n + ticks) <= limit + limit
    <3>1. n + ticks \in Int
      OBVIOUS
    <3>2. LeftIn(left, n, n + ticks) = 0
      BY <1>3, <3>1
    <3> QED
      BY <3>2
  <2>3. \A t \in Workers : transfer[t].pc = "idle"
    BY <1>2 DEF AllIdle
  <2> QED
    BY <2>1, <2>2, <2>3 DEF Rolls
<1>5. /\ clock = 0 /\ spending.hourlySpend = 0 /\ spending.dailySpend = 0
      /\ spending.lastHourReset = 0 /\ spending.lastDayReset = 0
  BY DEF Policy!Init
<1>6. /\ Rolls(left, transfer, 0, 0, 0, HourTicks, maxHourlySpend)
      /\ Rolls(left, transfer, 0, 0, 0, DayTicks, maxDailySpend)
  BY <1>4, PolicyConstants
<1> QED
  BY <1>1, <1>2, <1>5, <1>6 DEF PolicyInv

LEMMA PolicyLimits ==
    ASSUME PolicyInv
    PROVE  Policy!RollingLimit
<1>1. SUFFICES ASSUME ~crossing, ~missed, NEW n \in 0..PolicyHorizon
               PROVE  /\ Policy!SentWithin(HourTicks, n) <= 2 * maxHourlySpend
                      /\ Policy!SentWithin(DayTicks, n) <= 2 * maxDailySpend
  BY DEF Policy!RollingLimit
<1>2. ASSUME NEW ticks \in Nat
      PROVE  Policy!SentWithin(ticks, n) = LeftIn(left, n, n + ticks)
  <2> DEFINE S == {t \in 0..PolicyHorizon : t >= n /\ t < n + ticks}
  <2>1. Policy!SentWithin(ticks, n) = Policy!MapThenSumSet(LAMBDA t : left[t], S)
    BY DEF Policy!SentWithin
  <2>2. LeftIn(left, n, n + ticks) = SumFunctionOnSet(left, S)
    BY DEF LeftIn
  <2> HIDE DEF S
  <2>3. Policy!MapThenSumSet(LAMBDA t : left[t], S) = (CHOOSE sum : IsSumOf(left, S, sum))[S]
    BY DEF Policy!MapThenSumSet, Policy!MapThenFoldSet, IsSumOf, Pick
  <2> QED
    BY <2>1, <2>2, <2>3, SumIsChosen
<1>3. /\ Rolls(left, transfer, clock, spending.lastHourReset, spending.hourlySpend,
               HourTicks, maxHourlySpend)
      /\ Rolls(left, transfer, clock, spending.lastDayReset, spending.dailySpend,
               DayTicks, maxDailySpend)
  BY <1>1 DEF PolicyInv
<1>4. n \in Int
  BY PolicyConstants
<1>5. /\ LeftIn(left, n, n + HourTicks) <= maxHourlySpend + maxHourlySpend
      /\ LeftIn(left, n, n + DayTicks) <= maxDailySpend + maxDailySpend
  BY <1>3, <1>4 DEF Rolls
<1> QED
  BY <1>2, <1>5, PolicyConstants

-----------------------------------------------------------------------------
\* What the paying clients report as spent. Payments that a client has counted and not sent
\* yet (ToSend) are in what it reports, and payments that it has sent and not counted yet
\* (Unheard) are what it reports too little, with those of calls that failed.
CallShape == [pc : {"idle", "create", "track", "look", "send", "confirm", "answer", "dead"},
              amount : Amounts \cup {0}, asset : {"SOL", "token"}, scheme : {"exact", "solana"},
              creates : BOOLEAN, read : (0..MaxHour) \X Nat, lands : BOOLEAN]

Whole == 10 ^ Decimals
Shifted == 2 ^ Decimals
PaysWith(cl, r) == IF cl \in {"python", "rust"} /\ r.scheme = "solana" THEN "SOL" ELSE r.asset
UnitsOf(cl, r) ==
    IF cl = "go" /\ PaysWith(cl, r) = "token" THEN r.amount * Shifted ELSE r.amount * Whole
ToSend(cl, r) == IF r.pc \in {"look", "send"} THEN UnitsOf(cl, r) ELSE 0
Unheard(cl, r) ==
    IF r.lands /\ (r.pc = "confirm" \/ (cl = "mcp" /\ r.pc = "answer")) THEN UnitsOf(cl, r) ELSE 0

AllToSend(cl, k) == SumFunction([c \in Workers |-> ToSend(cl, k[c])])
AllUnheard(cl, k) == SumFunction([c \in Workers |-> Unheard(cl, k[c])])
Total(hs) == SumFunctionOnSet(hs, 0..MaxHour)
Reported(hs) == Total(hs) * Whole
Paid(fu) == (WalletFunds - fu["SOL"]) + (WalletFunds - fu["token"])

LEMMA CallConstants ==
    /\ Amounts \subseteq Nat /\ Limit \in Nat /\ WalletFunds \in Nat
    /\ MaxHour \in Nat /\ MaxCalls \in Nat
    /\ Shifted \in Nat /\ Whole \in Nat /\ Shifted <= Whole
BY ServicesAssumption DEF Paying!CallsAssumption, Shifted, Whole

LEMMA Products ==
    ASSUME NEW a \in Nat, NEW b \in Nat, NEW m \in Nat, NEW n \in Nat, m <= n
    PROVE  /\ a * m \in Nat /\ a * n \in Nat /\ a * m <= a * n
           /\ (a + b) * n = a * n + b * n
<1>1. PICK k \in Nat : n = m + k
  <2>1. n - m \in Nat /\ n = m + (n - m)
    OBVIOUS
  <2> QED
    BY <2>1
<1>2. a * n = a * m + a * k /\ a * k \in Nat /\ a * m \in Nat
  BY <1>1
<1>3. (a + b) * n = a * n + b * n
  OBVIOUS
<1> QED
  BY <1>2, <1>3

LEMMA UnitsTypes ==
    ASSUME NEW cl, NEW r \in CallShape
    PROVE  /\ r.amount \in Nat /\ r.amount * Whole \in Nat
           /\ UnitsOf(cl, r) \in Nat /\ UnitsOf(cl, r) <= r.amount * Whole
           /\ cl # "go" => UnitsOf(cl, r) = r.amount * Whole
           /\ ToSend(cl, r) \in Nat /\ Unheard(cl, r) \in Nat
<1>1. r.amount \in Nat
  <2>1. r.amount \in Amounts \cup {0}
    BY DEF CallShape
  <2>2. \A a \in Amounts \cup {0} : a \in Nat
    BY CallConstants
  <2> QED
    BY <2>1, <2>2
<1>2. /\ r.amount * Whole \in Nat /\ r.amount * Shifted \in Nat
      /\ r.amount * Shifted <= r.amount * Whole
  BY <1>1, CallConstants, Products
<1>3. /\ UnitsOf(cl, r) \in Nat /\ UnitsOf(cl, r) <= r.amount * Whole
      /\ cl # "go" => UnitsOf(cl, r) = r.amount * Whole
  BY <1>2 DEF UnitsOf
<1> QED
  BY <1>1, <1>2, <1>3 DEF ToSend, Unheard

\* A step of one call
LEMMA CallSums ==
    ASSUME NEW cl, NEW k \in [Workers -> CallShape], NEW k2 \in [Workers -> CallShape],
           NEW c \in Workers, \A d \in Workers \ {c} : k2[d] = k[d]
    PROVE  /\ AllToSend(cl, k) \in Nat /\ AllToSend(cl, k2) \in Nat
           /\ AllUnheard(cl, k) \in Nat /\ AllUnheard(cl, k2) \in Nat
           /\ AllToSend(cl, k2) - AllToSend(cl, k) = ToSend(cl, k2[c]) - ToSend(cl, k[c])
           /\ AllUnheard(cl, k2) - AllUnheard(cl, k) = Unheard(cl, k2[c]) - Unheard(cl, k[c])
<1>0. IsFiniteSet(Workers)
  BY ServicesAssumption
<1> DEFINE f == [d \in Workers |-> ToSend(cl, k[d])]
           g == [d \in Workers |-> ToSend(cl, k2[d])]
           u == [d \in Workers |-> Unheard(cl, k[d])]
           v == [d \in Workers |-> Unheard(cl, k2[d])]
<1>1. /\ \A d \in Workers : ToSend(cl, k[d]) \in Nat /\ ToSend(cl, k2[d]) \in Nat
      /\ \A d \in Workers : Unheard(cl, k[d]) \in Nat /\ Unheard(cl, k2[d]) \in Nat
  BY UnitsTypes
<1>2. /\ f \in [Workers -> Nat] /\ g \in [Workers -> Nat]
      /\ u \in [Workers -> Nat] /\ v \in [Workers -> Nat]
  BY <1>1
<1>3. \A d \in Workers \ {c} : g[d] = f[d] /\ v[d] = u[d]
  OBVIOUS
<1>4. /\ AllToSend(cl, k) = SumFunction(f) /\ AllToSend(cl, k2) = SumFunction(g)
      /\ AllUnheard(cl, k) = SumFunction(u) /\ AllUnheard(cl, k2) = SumFunction(v)
  BY DEF AllToSend, AllUnheard
<1>5. /\ f[c] = ToSend(cl, k[c]) /\ g[c] = ToSend(cl, k2[c])
      /\ u[c] = Unheard(cl, k[c]) /\ v[c] = Unheard(cl, k2[c])
  OBVIOUS
<1> HIDE DEF f, g, u, v
<1>6. /\ SumFunction(f) \in Nat /\ SumFunction(g) \in Nat
      /\ SumFunction(u) \in Nat /\ SumFunction(v) \in Nat
  BY <1>0, <1>2, SumAtLeastEntry
<1>7. /\ f \in [Workers -> Int] /\ g \in [Workers -> Int]
      /\ u \in [Workers -> Int] /\ v \in [Workers -> Int]
  BY <1>2
<1>8. SumFunction(g) - SumFunction(f) = g[c] - f[c]
  BY <1>0, <1>3, <1>7, SumUpdate
<1>9. SumFunction(v) - SumFunction(u) = v[c] - u[c]
  BY <1>0, <1>3, <1>7, SumUpdate
<1> QED
  BY <1>4, <1>5, <1>6, <1>8, <1>9

LEMMA TotalType ==
    ASSUME NEW hs \in [0..MaxHour -> Nat]
    PROVE  Total(hs) \in Nat /\ Reported(hs) \in Nat
<1>1. IsFiniteSet(0..MaxHour) /\ \A h \in 0..MaxHour : hs[h] \in Int /\ hs[h] >= 0
  <2>1. IsFiniteSet(0..MaxHour)
    BY CallConstants, FS_Interval
  <2> QED
    BY <2>1
<1>2. SumFunctionOnSet(hs, 0..MaxHour) \in Int /\ SumFunctionOnSet(hs, 0..MaxHour) >= 0
  BY <1>1, SumType
<1>3. Total(hs) \in Nat
  BY <1>2 DEF Total
<1> QED
  BY <1>3, CallConstants, Products DEF Reported

\* An amount is added to an hour's spending.
LEMMA ReportsMore ==
    ASSUME NEW hs \in [0..MaxHour -> Nat], NEW h \in 0..MaxHour, NEW a \in Nat,
           NEW hs2, hs2 = MoreAt(hs, h, a)
    PROVE  Reported(hs2) = Reported(hs) + a * Whole
<1> DEFINE S == 0..MaxHour
<1>1. IsFiniteSet(S)
  BY CallConstants, FS_Interval
<1>2. MoreIn(S, hs, hs2, h, a) /\ h \in S
  BY DEF MoreIn, MoreAt
<1>3. Total(hs2) = Total(hs) + a
  <2>1. Total(hs2) = SumFunctionOnSet(hs2, S) /\ Total(hs) = SumFunctionOnSet(hs, S)
    BY DEF Total
  <2> HIDE DEF S
  <2>2. SumFunctionOnSet(hs2, S) = SumFunctionOnSet(hs, S) + (IF h \in S THEN a ELSE 0)
    BY <1>1, <1>2, SomeMore
  <2> QED
    BY <1>2, <2>1, <2>2
<1>4. Total(hs) \in Nat
  BY TotalType
<1>5. (Total(hs) + a) * Whole = Total(hs) * Whole + a * Whole
  BY <1>4, CallConstants, Products
<1> QED
  BY <1>3, <1>5 DEF Reported

Balanced(first, later, exact, p, r, l, s, u) ==
    /\ first => p + s <= r
    /\ later => p <= r + l + u
    /\ exact => r + l + u <= p

LEMMA StaysBalanced ==
    ASSUME NEW first \in BOOLEAN, NEW later \in BOOLEAN, NEW exact \in BOOLEAN,
           NEW first2 \in BOOLEAN,
           NEW p \in Int, NEW r \in Int, NEW l \in Int, NEW s \in Int, NEW u \in Int,
           NEW p2 \in Int, NEW r2 \in Int, NEW l2 \in Int, NEW s2 \in Int, NEW u2 \in Int,
           Balanced(first, later, exact, p, r, l, s, u),
           first2 => first,
           first2 => (p2 - p) + (s2 - s) <= r2 - r,
           later => p2 - p <= (r2 - r) + (l2 - l) + (u2 - u),
           exact => p2 - p >= (r2 - r) + (l2 - l) + (u2 - u)
    PROVE  Balanced(first2, later, exact, p2, r2, l2, s2, u2)
BY DEF Balanced

Clients == {"javascript", "python", "go", "rust", "phantom", "cdp", "mcp"}
CallTypes ==
    /\ client \in Clients
    /\ hour \in 0..MaxHour
    /\ hourlySpending \in [0..MaxHour -> Nat]
    /\ call \in [Workers -> CallShape]
    /\ funds \in [{"SOL", "token"} -> 0..WalletFunds]
    /\ account \in BOOLEAN
    /\ lost \in Nat
    /\ asked \in 0..MaxCalls
    /\ mixed \in BOOLEAN

\* The steps of a call, with the clients that take them
Looks(c) ==
    \/ /\ client \in {"python", "rust", "go", "phantom"}
       /\ Paying!PaysIn(c) = "SOL" /\ Paying!LookAtBalance(c, "SOL", Paying!Units(c))
    \/ client \in {"python", "phantom"} /\ Paying!OpenAccount(c)
    \/ client = "rust" /\ Paying!RustToken(c)
    \/ client \in {"javascript", "cdp", "mcp"} /\ Paying!LookForAccount(c)
    \/ client = "go" /\ Paying!PaysIn(c) = "token" /\ Paying!LookForAccount(c)

CallStep(c) ==
    \/ Paying!Ask(c)
    \/ Paying!NotSent(c)
    \/ client \in {"javascript", "python", "rust"} /\ Paying!Track(c)
    \/ Looks(c)
    \/ Paying!Send(c)
    \/ client \in {"python", "go"} /\ Paying!Confirm(c)
    \/ client \in {"javascript", "rust", "mcp"} /\ call[c].lands /\ Paying!Confirm(c)
    \/ Paying!Fail(c, "confirm")
    \/ client = "mcp" /\ Paying!Fail(c, "answer")
    \/ client # "mcp" /\ Paying!Answer(c)
    \/ client = "go" /\ (Paying!GoReads(c) \/ Paying!GoWrites(c) \/ Paying!GoDies(c))
    \/ client = "phantom" /\ Paying!CheckLimit(c)
    \/ client \in {"phantom", "cdp"} /\ Paying!TrackConfirmed(c)
    \/ client \in {"cdp", "mcp"} /\ Paying!Create(c)
    \/ client = "cdp" /\ Paying!AskAgain(c)
    \/ client = "mcp" /\ Paying!Record(c)

LEMMA CallSteps ==
    ASSUME [Paying!Next]_callsVars
    PROVE  (\E c \in Workers : CallStep(c)) \/ Paying!Hour \/ UNCHANGED callsVars
<1>1. ASSUME NEW c \in Workers, Paying!JavaScript(c) \/ Paying!Python(c) \/ Paying!Rust(c)
      PROVE  CallStep(c)
  BY <1>1 DEF Paying!JavaScript, Paying!Python, Paying!PythonSol, Paying!Rust, Paying!RustSol,
        CallStep, Looks
<1>2. ASSUME NEW c \in Workers, Paying!Go(c) \/ Paying!Phantom(c)
      PROVE  CallStep(c)
  BY <1>2 DEF Paying!Go, Paying!GoSol, Paying!GoToken, Paying!Phantom, Paying!PhantomSol,
        CallStep, Looks
<1>3. ASSUME NEW c \in Workers, Paying!Cdp(c) \/ Paying!Mcp(c)
      PROVE  CallStep(c)
  BY <1>3 DEF Paying!Cdp, Paying!Mcp, CallStep, Looks
<1> QED
  BY <1>1, <1>2, <1>3 DEF Paying!Next

LEMMA CallTypesAre == Paying!TypeOK <=> CallTypes
BY DEF Paying!TypeOK, Paying!Assets, CallTypes, Clients, CallShape

LEMMA UnitsAre ==
    ASSUME NEW c
    PROVE  /\ Paying!PaysIn(c) = PaysWith(client, call[c])
           /\ Paying!Units(c) = UnitsOf(client, call[c])
BY DEF Paying!PaysIn, Paying!Units, PaysWith, UnitsOf, Whole, Shifted

LEMMA IdleShape ==
    /\ Paying!Idle \in CallShape
    /\ Paying!Idle.pc = "idle" /\ ~Paying!Idle.lands /\ ~Paying!Idle.creates
<1>1. <<0, 0>> \in (0..MaxHour) \X Nat /\ 0 \in Amounts \cup {0}
  BY CallConstants
<1> QED
  BY <1>1 DEF Paying!Idle, CallShape

\* How a step changes its call
Points == {"idle", "create", "track", "look", "send", "confirm", "answer", "dead"}
SamePayment(z, r) == z.amount = r.amount /\ z.asset = r.asset /\ z.scheme = r.scheme
AtPoint(r, p) == [r EXCEPT !.pc = p]
WithCreates(r, b) == [r EXCEPT !.creates = b]
WithLands(r, b) == [r EXCEPT !.lands = b]
WithRead(r, x) == [r EXCEPT !.read = x]

LEMMA FieldsSet ==
    ASSUME NEW r \in CallShape
    PROVE  /\ \A p \in Points :
                 LET z == AtPoint(r, p) IN
                     /\ z \in CallShape /\ SamePayment(z, r) /\ z.pc = p
                     /\ z.creates = r.creates /\ z.lands = r.lands /\ z.read = r.read
           /\ \A b \in BOOLEAN :
                 LET z == WithCreates(r, b) IN
                     /\ z \in CallShape /\ SamePayment(z, r) /\ z.pc = r.pc
                     /\ z.creates = b /\ z.lands = r.lands /\ z.read = r.read
           /\ \A b \in BOOLEAN :
                 LET z == WithLands(r, b) IN
                     /\ z \in CallShape /\ SamePayment(z, r) /\ z.pc = r.pc
                     /\ z.creates = r.creates /\ z.lands = b /\ z.read = r.read
           /\ \A x \in (0..MaxHour) \X Nat :
                 LET z == WithRead(r, x) IN
                     /\ z \in CallShape /\ SamePayment(z, r) /\ z.pc = r.pc
                     /\ z.creates = r.creates /\ z.lands = r.lands /\ z.read = x
<1> DEFINE X == (0..MaxHour) \X Nat
           A == Amounts \cup {0}
           S == [pc : Points, amount : A, asset : {"SOL", "token"}, scheme : {"exact", "solana"},
                 creates : BOOLEAN, read : X, lands : BOOLEAN]
<1>1. S = CallShape
  BY DEF CallShape, Points
<1> HIDE DEF X, A
<1>2. ASSUME NEW p \in Points
      PROVE  LET z == AtPoint(r, p) IN
                 /\ z \in S /\ SamePayment(z, r) /\ z.pc = p
                 /\ z.creates = r.creates /\ z.lands = r.lands /\ z.read = r.read
  BY <1>1 DEF AtPoint, SamePayment
<1>3. ASSUME NEW b \in BOOLEAN
      PROVE  LET z == WithCreates(r, b) IN
                 /\ z \in S /\ SamePayment(z, r) /\ z.pc = r.pc
                 /\ z.creates = b /\ z.lands = r.lands /\ z.read = r.read
  BY <1>1 DEF WithCreates, SamePayment
<1>4. ASSUME NEW b \in BOOLEAN
      PROVE  LET z == WithLands(r, b) IN
                 /\ z \in S /\ SamePayment(z, r) /\ z.pc = r.pc
                 /\ z.creates = r.creates /\ z.lands = b /\ z.read = r.read
  BY <1>1 DEF WithLands, SamePayment
<1>5. ASSUME NEW x \in X
      PROVE  LET z == WithRead(r, x) IN
                 /\ z \in S /\ SamePayment(z, r) /\ z.pc = r.pc
                 /\ z.creates = r.creates /\ z.lands = r.lands /\ z.read = x
  BY <1>1 DEF WithRead, SamePayment
<1> HIDE DEF S
<1> QED
  BY <1>1, <1>2, <1>3, <1>4, <1>5 DEF X

LEMMA OneChange ==
    ASSUME CallTypes, NEW c \in Workers, NEW z \in CallShape, call' = [call EXCEPT ![c] = z]
    PROVE  /\ call' \in [Workers -> CallShape] /\ call'[c] = z
           /\ \A d \in Workers \ {c} : call'[d] = call[d]
BY DEF CallTypes

LEMMA TwoChanges ==
    ASSUME CallTypes, NEW c \in Workers, NEW y \in CallShape, NEW F(_), NEW k,
           k = [[call EXCEPT ![c] = y] EXCEPT ![c] = F([call EXCEPT ![c] = y][c])]
    PROVE  k = [call EXCEPT ![c] = F(y)]
<1>1. [call EXCEPT ![c] = y][c] = y
  BY DEF CallTypes
<1> QED
  BY <1>1 DEF CallTypes

Elsewhere(c) ==
    /\ call' \in [Workers -> CallShape]
    /\ \A d \in Workers \ {c} : call'[d] = call[d]

LEMMA Returns ==
    ASSUME CallTypes, NEW c \in Workers, Paying!Return(c)
    PROVE  /\ Elsewhere(c) /\ call'[c] \in CallShape
           /\ call'[c].pc = "idle" /\ ~call'[c].lands /\ ~call'[c].creates
BY OneChange, IdleShape DEF Paying!Return, Elsewhere

LEMMA Goes ==
    ASSUME CallTypes, NEW c \in Workers, NEW p \in Points, Paying!Goto(c, p)
    PROVE  /\ Elsewhere(c) /\ call'[c] \in CallShape /\ SamePayment(call'[c], call[c])
           /\ call'[c].pc = p /\ call'[c].creates = call[c].creates
           /\ call'[c].lands = call[c].lands /\ call'[c].read = call[c].read
<1> DEFINE z == AtPoint(call[c], p)
<1>1. call[c] \in CallShape
  BY DEF CallTypes
<1>2. /\ z \in CallShape /\ SamePayment(z, call[c])
      /\ z.pc = p /\ z.creates = call[c].creates
      /\ z.lands = call[c].lands /\ z.read = call[c].read
  BY <1>1, FieldsSet
<1>3. call' = [call EXCEPT ![c] = z]
  BY DEF Paying!Goto, AtPoint
<1> HIDE DEF z
<1> QED
  BY <1>2, <1>3, OneChange DEF Elsewhere

LEMMA LooksForAccount ==
    ASSUME CallTypes, NEW c \in Workers, Paying!LookForAccount(c)
    PROVE  /\ Elsewhere(c) /\ call'[c] \in CallShape /\ SamePayment(call'[c], call[c])
           /\ call'[c].pc = "send" /\ call'[c].lands = call[c].lands
           /\ Paying!PaysIn(c) = "token" => account \/ call'[c].creates
<1>1. PICK found \in {account, FALSE} :
         call' = [call EXCEPT ![c].pc = "send",
                              ![c].creates = Paying!PaysIn(c) = "token" /\ ~found]
  BY DEF Paying!LookForAccount
<1> DEFINE b == Paying!PaysIn(c) = "token" /\ ~found
           y == AtPoint(call[c], "send")
           z == WithCreates(y, b)
<1>2. call[c] \in CallShape /\ b \in BOOLEAN /\ "send" \in Points
  BY DEF CallTypes, Points
<1>3. /\ y \in CallShape /\ SamePayment(y, call[c])
      /\ y.pc = "send" /\ y.lands = call[c].lands
  BY <1>2, FieldsSet
<1>4. call' = [[call EXCEPT ![c] = y] EXCEPT ![c] = WithCreates([call EXCEPT ![c] = y][c], b)]
  BY <1>1 DEF AtPoint, WithCreates
<1>5. Paying!PaysIn(c) = "token" => account \/ b
  BY <1>2 DEF CallTypes
<1> HIDE DEF y, b
<1>6. /\ z \in CallShape /\ SamePayment(z, y)
      /\ z.pc = "send" /\ z.lands = y.lands /\ z.creates = b
  BY <1>2, <1>3, FieldsSet
<1>7. call' = [call EXCEPT ![c] = z]
  BY <1>3, <1>4, TwoChanges
<1> HIDE DEF z
<1>8. Elsewhere(c) /\ call'[c] = z
  BY <1>6, <1>7, OneChange DEF Elsewhere
<1> QED
  BY <1>3, <1>5, <1>6, <1>8 DEF SamePayment

LEMMA UnitsOfSame ==
    ASSUME NEW cl, NEW z, NEW r, SamePayment(z, r)
    PROVE  UnitsOf(cl, z) = UnitsOf(cl, r) /\ PaysWith(cl, z) = PaysWith(cl, r)
BY DEF SamePayment, UnitsOf, PaysWith

AskedFor(r, a, s, q) == [r EXCEPT !.pc = "create", !.amount = a, !.asset = s, !.scheme = q]

LEMMA AsksShape ==
    ASSUME NEW a \in Amounts, NEW s \in {"SOL", "token"}, NEW q \in {"exact", "solana"}
    PROVE  LET r == Paying!Idle
               z == AskedFor(r, a, s, q) IN
           /\ z \in CallShape /\ z.pc = "create" /\ ~z.creates /\ ~z.lands
           /\ r.scheme = "exact" /\ r \in CallShape
<1> DEFINE X == (0..MaxHour) \X Nat
           A == Amounts \cup {0}
           S == [pc : Points, amount : A, asset : {"SOL", "token"}, scheme : {"exact", "solana"},
                 creates : BOOLEAN, read : X, lands : BOOLEAN]
<1>1. S = CallShape /\ "create" \in Points /\ a \in A
  BY DEF CallShape, Points
<1> HIDE DEF X, A
<1>2. ASSUME NEW r \in S, ~r.creates, ~r.lands
      PROVE  LET z == AskedFor(r, a, s, q) IN
                 z \in S /\ z.pc = "create" /\ ~z.creates /\ ~z.lands
  BY <1>1, <1>2 DEF AskedFor
<1> HIDE DEF S
<1>3. Paying!Idle.scheme = "exact"
  BY DEF Paying!Idle
<1> QED
  BY <1>1, <1>2, <1>3, IdleShape

LEMMA Asks ==
    ASSUME CallTypes, NEW c \in Workers, Paying!Ask(c) \/ Paying!AskAgain(c)
    PROVE  /\ Elsewhere(c) /\ call'[c] \in CallShape
           /\ call'[c].pc = "create" /\ ~call'[c].creates /\ ~call'[c].lands
<1>1. \E a \in Amounts, s \in {"SOL", "token"}, q \in {"exact", "solana"} :
         call' = [call EXCEPT ![c] = AskedFor(Paying!Idle, a, s, q)]
  <2>1. CASE Paying!Ask(c)
    <3>1. PICK a \in Amounts, s \in {"SOL", "token"}, q \in Paying!Schemes :
             call' = [call EXCEPT ![c] = [Paying!Idle EXCEPT !.pc = "create", !.amount = a,
                                                             !.asset = s, !.scheme = q]]
      BY <2>1, Zenon DEF Paying!Ask, Paying!Assets
    <3>2. q \in {"exact", "solana"}
      BY DEF Paying!Schemes
    <3> QED
      BY <3>1, <3>2, Zenon DEF AskedFor
  <2>2. CASE Paying!AskAgain(c)
    <3>1. PICK a \in Amounts, s \in {"SOL", "token"} :
             call' = [call EXCEPT ![c] = [Paying!Idle EXCEPT !.pc = "create", !.amount = a,
                                                             !.asset = s]]
      BY <2>2, Zenon DEF Paying!AskAgain, Paying!Assets
    <3>2. ASSUME NEW r \in CallShape, r.scheme = "exact"
          PROVE  [r EXCEPT !.pc = "create", !.amount = a, !.asset = s]
                   = AskedFor(r, a, s, "exact")
      BY <3>2 DEF AskedFor, CallShape
    <3>3. Paying!Idle \in CallShape /\ Paying!Idle.scheme = "exact"
      BY <3>1, AsksShape
    <3>4. call' = [call EXCEPT ![c] = AskedFor(Paying!Idle, a, s, "exact")]
      BY <3>1, <3>2, <3>3, Zenon
    <3> QED
      BY <3>4
  <2> QED
    BY <2>1, <2>2
<1>2. PICK a \in Amounts, s \in {"SOL", "token"}, q \in {"exact", "solana"} :
         call' = [call EXCEPT ![c] = AskedFor(Paying!Idle, a, s, q)]
  BY <1>1, Zenon
<1> DEFINE z == AskedFor(Paying!Idle, a, s, q)
<1>3. call' = [call EXCEPT ![c] = z]
  BY <1>2
<1>4. z \in CallShape /\ z.pc = "create" /\ ~z.creates /\ ~z.lands
  BY AsksShape, Zenon
<1> HIDE DEF z
<1>5. Elsewhere(c) /\ call'[c] = z
  BY <1>3, <1>4, OneChange DEF Elsewhere
<1> QED
  BY <1>4, <1>5

\* The inductive invariant
CountsFirst(cl, m) == cl \in {"javascript", "python", "rust"} \/ (cl = "go" /\ ~m)
CountsLater(cl) == cl \in {"phantom", "cdp", "mcp"}
CanLandWith(cl, r, fu, ac) ==
    /\ UnitsOf(cl, r) <= fu[PaysWith(cl, r)]
    /\ PaysWith(cl, r) = "token" => ac # r.creates

\* What a call relies on. One call at a time: the sum that the Go client has read is still
\* the hour's, the Phantom client's payment still fits into the hour's limit, and a payment
\* whose balance was looked at still has it.
PointHolds(cl, m, h, hs, fu, ac, r) ==
    /\ r.pc \in {"create", "track", "look"} => ~r.creates
    /\ cl = "mcp" /\ r.pc = "answer" => r.lands
    /\ r.pc = "send" /\ cl # "rust" /\ PaysWith(cl, r) = "token" => ac \/ r.creates
    /\ ~m /\ cl = "go" /\ r.pc = "track" => hs[r.read[1]] = r.read[2]
    /\ ~m /\ cl = "phantom" /\ r.pc \in {"look", "send", "confirm"} => hs[h] + r.amount <= Limit
    /\ ~m /\ r.pc = "send" /\ (\/ cl \in {"python", "phantom"}
                               \/ cl \in {"rust", "go"} /\ PaysWith(cl, r) = "SOL")
          => CanLandWith(cl, r, fu, ac)

HourKept(cl, m, h, hs) ==
    cl = "phantom" /\ ~m => \A i \in 0..MaxHour : hs[i] <= Limit /\ (i > h => hs[i] = 0)
OneAtATime(m, k) ==
    ~m => \A c \in Workers : \A d \in Workers \ {c} : k[c].pc = "idle" \/ k[d].pc = "idle"

SumsBalance(cl, m, p, r, l, k) ==
    Balanced(CountsFirst(cl, m), CountsLater(cl), cl = "mcp", p, r, l,
             AllToSend(cl, k), AllUnheard(cl, k))

CallsInv ==
    /\ CallTypes
    /\ SumsBalance(client, mixed, Paid(funds), Reported(hourlySpending), lost, call)
    /\ OneAtATime(mixed, call)
    /\ \A c \in Workers : PointHolds(client, mixed, hour, hourlySpending, funds, account, call[c])
    /\ HourKept(client, mixed, hour, hourlySpending)

\* A step of one call: what it may do to the rest
OnlyCall(c) ==
    /\ Elsewhere(c)
    /\ client' = client /\ hour' = hour
    /\ mixed => mixed'
    /\ ~mixed' => \A d \in Workers \ {c} : call[d].pc = "idle"
    /\ account => account'

\* and to the sums
Shifts(cl, m2, p, r, l, a, p2, r2, l2, a2) ==
    /\ CountsFirst(cl, m2) => (p2 - p) + (ToSend(cl, a2) - ToSend(cl, a)) <= r2 - r
    /\ CountsLater(cl) => p2 - p <= (r2 - r) + (l2 - l) + (Unheard(cl, a2) - Unheard(cl, a))
    /\ cl = "mcp" => p2 - p >= (r2 - r) + (l2 - l) + (Unheard(cl, a2) - Unheard(cl, a))

LEMMA PaidType ==
    ASSUME NEW fu \in [{"SOL", "token"} -> 0..WalletFunds]
    PROVE  Paid(fu) \in Int
<1>1. fu["SOL"] \in Int /\ fu["token"] \in Int /\ WalletFunds \in Int
  BY CallConstants
<1> QED
  BY <1>1 DEF Paid

SameElsewhere(k, k2, c) == \A d \in Workers \ {c} : k2[d] = k[d]

LEMMA SumsStayBalanced ==
    ASSUME NEW cl, NEW m \in BOOLEAN, NEW m2 \in BOOLEAN, m => m2,
           NEW p \in Int, NEW r \in Int, NEW l \in Int, NEW p2 \in Int, NEW r2 \in Int,
           NEW l2 \in Int,
           NEW k \in [Workers -> CallShape], NEW k2 \in [Workers -> CallShape],
           NEW c \in Workers, SameElsewhere(k, k2, c), SumsBalance(cl, m, p, r, l, k),
           Shifts(cl, m2, p, r, l, k[c], p2, r2, l2, k2[c])
    PROVE  SumsBalance(cl, m2, p2, r2, l2, k2)
<1> DEFINE s == AllToSend(cl, k)
           u == AllUnheard(cl, k)
           s2 == AllToSend(cl, k2)
           u2 == AllUnheard(cl, k2)
           x == ToSend(cl, k[c])
           y == Unheard(cl, k[c])
           x2 == ToSend(cl, k2[c])
           y2 == Unheard(cl, k2[c])
<1>1. /\ s \in Nat /\ s2 \in Nat /\ u \in Nat /\ u2 \in Nat
      /\ s2 - s = x2 - x /\ u2 - u = y2 - y
  BY CallSums DEF SameElsewhere
<1>2. /\ CountsFirst(cl, m2) => (p2 - p) + (x2 - x) <= r2 - r
      /\ CountsLater(cl) => p2 - p <= (r2 - r) + (l2 - l) + (y2 - y)
      /\ cl = "mcp" => p2 - p >= (r2 - r) + (l2 - l) + (y2 - y)
  BY DEF Shifts
<1>3. CountsFirst(cl, m2) => CountsFirst(cl, m)
  BY DEF CountsFirst
<1>4. /\ Balanced(CountsFirst(cl, m), CountsLater(cl), cl = "mcp", p, r, l, s, u)
      /\ s2 = AllToSend(cl, k2) /\ u2 = AllUnheard(cl, k2)
  BY DEF SumsBalance
<1> HIDE DEF s, u, s2, u2, x, y, x2, y2
<1>5. /\ CountsFirst(cl, m2) => (p2 - p) + (s2 - s) <= r2 - r
      /\ CountsLater(cl) => p2 - p <= (r2 - r) + (l2 - l) + (u2 - u)
      /\ cl = "mcp" => p2 - p >= (r2 - r) + (l2 - l) + (u2 - u)
  BY <1>1, <1>2
<1>6. Balanced(CountsFirst(cl, m2), CountsLater(cl), cl = "mcp", p2, r2, l2, s2, u2)
  <2>1. s \in Int /\ u \in Int /\ s2 \in Int /\ u2 \in Int
    BY <1>1
  <2>2. ASSUME CountsFirst(cl, m2)
        PROVE  p2 + s2 <= r2
    BY <1>3, <1>4, <1>5, <2>1, <2>2 DEF Balanced
  <2>3. ASSUME CountsLater(cl)
        PROVE  p2 <= r2 + l2 + u2
    BY <1>4, <1>5, <2>1, <2>3 DEF Balanced
  <2>4. ASSUME cl = "mcp"
        PROVE  r2 + l2 + u2 <= p2
    BY <1>4, <1>5, <2>1, <2>4 DEF Balanced
  <2> QED
    BY <2>2, <2>3, <2>4 DEF Balanced
<1> QED
  BY <1>4, <1>6 DEF SumsBalance

LEMMA CallGoes ==
    ASSUME CallsInv, CallTypes', NEW c \in Workers, OnlyCall(c),
           Shifts(client, mixed', Paid(funds), Reported(hourlySpending), lost, call[c],
                 Paid(funds'), Reported(hourlySpending'), lost', call'[c]),
           PointHolds(client, mixed', hour, hourlySpending', funds', account', call'[c]),
           HourKept(client, mixed', hour, hourlySpending')
    PROVE  CallsInv'
<1>1. /\ client' = client /\ hour' = hour /\ mixed \in BOOLEAN /\ mixed' \in BOOLEAN
      /\ mixed => mixed'
      /\ call \in [Workers -> CallShape] /\ call' \in [Workers -> CallShape]
      /\ \A d \in Workers \ {c} : call'[d] = call[d]
  BY DEF CallsInv, CallTypes, OnlyCall, Elsewhere
<1>2. /\ Paid(funds) \in Int /\ Paid(funds') \in Int
      /\ Reported(hourlySpending) \in Int /\ Reported(hourlySpending') \in Int
      /\ lost \in Int /\ lost' \in Int
  <2>1. /\ hourlySpending \in [0..MaxHour -> Nat] /\ hourlySpending' \in [0..MaxHour -> Nat]
        /\ funds \in [{"SOL", "token"} -> 0..WalletFunds]
        /\ funds' \in [{"SOL", "token"} -> 0..WalletFunds]
        /\ lost \in Nat /\ lost' \in Nat
    BY DEF CallsInv, CallTypes
  <2>2. Reported(hourlySpending) \in Nat /\ Reported(hourlySpending') \in Nat
    BY <2>1, TotalType
  <2>3. Paid(funds) \in Int /\ Paid(funds') \in Int
    BY <2>1, PaidType
  <2> QED
    BY <2>1, <2>2, <2>3
<1>3. SumsBalance(client, mixed', Paid(funds'), Reported(hourlySpending'), lost', call')
  <2>1. SumsBalance(client, mixed, Paid(funds), Reported(hourlySpending), lost, call)
    BY DEF CallsInv
  <2> DEFINE p == Paid(funds)
             r == Reported(hourlySpending)
             p2 == Paid(funds')
             r2 == Reported(hourlySpending')
  <2>2. /\ SumsBalance(client, mixed, p, r, lost, call)
        /\ Shifts(client, mixed', p, r, lost, call[c], p2, r2, lost', call'[c])
        /\ SameElsewhere(call, call', c)
        /\ p \in Int /\ r \in Int /\ p2 \in Int /\ r2 \in Int
        /\ lost \in Int /\ lost' \in Int /\ mixed \in BOOLEAN /\ mixed' \in BOOLEAN
        /\ mixed => mixed'
        /\ call \in [Workers -> CallShape] /\ call' \in [Workers -> CallShape]
    BY <1>1, <1>2, <2>1 DEF SameElsewhere
  <2>3. SumsBalance(client, mixed', p2, r2, lost', call')
    <3> HIDE DEF p, r, p2, r2
    <3> QED
      BY <2>2, SumsStayBalanced
  <2> QED
    BY <2>3
<1>4. ~mixed' => \A d \in Workers \ {c} : call'[d].pc = "idle"
  BY <1>1 DEF OnlyCall
<1>5. OneAtATime(mixed', call')
  BY <1>4 DEF OneAtATime
<1>6. ASSUME NEW d \in Workers
      PROVE  PointHolds(client, mixed', hour, hourlySpending', funds', account', call'[d])
  <2>1. CASE d = c
    BY <2>1
  <2>2. CASE d # c
    <3>1. call'[d] = call[d] /\ (~mixed' => call[d].pc = "idle") /\ (account => account')
      BY <1>1, <2>2 DEF OnlyCall
    <3>2. PointHolds(client, mixed, hour, hourlySpending, funds, account, call[d])
      BY DEF CallsInv
    <3>3. PointHolds(client, mixed', hour, hourlySpending', funds', account', call[d])
      BY <3>1, <3>2 DEF PointHolds
    <3> QED
      BY <3>1, <3>3
  <2> QED
    BY <2>1, <2>2
<1> QED
  BY <1>1, <1>3, <1>5, <1>6 DEF CallsInv

\* A step that pays and counts nothing
QuietShift(cl, m, r, z) ==
    /\ CountsFirst(cl, m) => ToSend(cl, z) <= ToSend(cl, r)
    /\ CountsLater(cl) => Unheard(cl, z) = Unheard(cl, r)

LEMMA QuietGoes ==
    ASSUME CallsInv, NEW c \in Workers, Elsewhere(c), call[c].pc # "idle",
           UNCHANGED <<client, hour, hourlySpending, funds, lost, mixed>>,
           asked' \in 0..MaxCalls, account' \in BOOLEAN, account => account',
           QuietShift(client, mixed, call[c], call'[c]),
           PointHolds(client, mixed, hour, hourlySpending, funds, account', call'[c])
    PROVE  CallsInv'
<1>1. CallTypes'
  BY DEF CallsInv, CallTypes, Elsewhere
<1>2. ~mixed => \A d \in Workers \ {c} : call[d].pc = "idle"
  BY DEF CallsInv, OneAtATime
<1>3. OnlyCall(c)
  BY <1>2 DEF OnlyCall
<1>4. Shifts(client, mixed', Paid(funds), Reported(hourlySpending), lost, call[c],
             Paid(funds'), Reported(hourlySpending'), lost', call'[c])
  <2>1. ASSUME NEW p \in Int, NEW r \in Int, NEW l \in Int
        PROVE  Shifts(client, mixed, p, r, l, call[c], p, r, l, call'[c])
    <3>1. call[c] \in CallShape /\ call'[c] \in CallShape
      BY DEF CallsInv, CallTypes, Elsewhere
    <3> DEFINE x == ToSend(client, call[c])
               y == Unheard(client, call[c])
               x2 == ToSend(client, call'[c])
               y2 == Unheard(client, call'[c])
    <3>2. x \in Nat /\ y \in Nat /\ x2 \in Nat /\ y2 \in Nat
      BY <3>1, UnitsTypes
    <3>3. /\ CountsFirst(client, mixed) => x2 <= x
          /\ CountsLater(client) => y2 = y
      BY DEF QuietShift
    <3>4. client = "mcp" => CountsLater(client)
      BY DEF CountsLater
    <3> HIDE DEF x, y, x2, y2
    <3>5. /\ CountsFirst(client, mixed) => (p - p) + (x2 - x) <= r - r
          /\ CountsLater(client) => p - p <= (r - r) + (l - l) + (y2 - y)
          /\ client = "mcp" => p - p >= (r - r) + (l - l) + (y2 - y)
      BY <3>2, <3>3, <3>4
    <3> QED
      BY <3>5 DEF Shifts, x, y, x2, y2
  <2>2. /\ hourlySpending \in [0..MaxHour -> Nat] /\ lost \in Int
        /\ funds \in [{"SOL", "token"} -> 0..WalletFunds]
    BY DEF CallsInv, CallTypes
  <2>3. Paid(funds) \in Int /\ Reported(hourlySpending) \in Int
    BY <2>2, PaidType, TotalType
  <2>4. Shifts(client, mixed, Paid(funds), Reported(hourlySpending), lost, call[c],
               Paid(funds), Reported(hourlySpending), lost, call'[c])
    BY <2>1, <2>2, <2>3
  <2> QED
    BY <2>4
<1>5. HourKept(client, mixed', hour, hourlySpending')
  BY DEF CallsInv
<1>6. PointHolds(client, mixed', hour, hourlySpending', funds', account', call'[c])
  OBVIOUS
<1> QED
  BY <1>1, <1>3, <1>4, <1>5, <1>6, CallGoes

\* Where a call may be after such a step
LEMMA QuietReturns ==
    ASSUME NEW cl, NEW m, NEW h, NEW hs, NEW fu, NEW ac, NEW r \in CallShape, NEW z \in CallShape,
           z.pc = "idle",
           r.pc \in {"create", "look", "send"} \/ (r.pc = "answer" /\ cl # "mcp")
    PROVE  QuietShift(cl, m, r, z) /\ PointHolds(cl, m, h, hs, fu, ac, z)
<1>1. ToSend(cl, r) \in Nat
  BY UnitsTypes
<1>2. ToSend(cl, z) = 0 /\ Unheard(cl, z) = 0 /\ Unheard(cl, r) = 0
  BY DEF ToSend, Unheard
<1>3. QuietShift(cl, m, r, z)
  BY <1>1, <1>2 DEF QuietShift
<1> QED
  BY <1>3 DEF PointHolds

LEMMA QuietToSend ==
    ASSUME NEW cl, NEW m, NEW h, NEW hs, NEW fu, NEW ac \in BOOLEAN,
           NEW ac2 \in BOOLEAN, NEW r \in CallShape, NEW z \in CallShape,
           SamePayment(z, r), r.pc = "look", z.pc = "send",
           PointHolds(cl, m, h, hs, fu, ac, r),
           cl # "rust" /\ PaysWith(cl, r) = "token" => ac2 \/ z.creates,
           (\/ cl \in {"python", "phantom"}
            \/ cl \in {"rust", "go"} /\ PaysWith(cl, r) = "SOL")
               => CanLandWith(cl, z, fu, ac2)
    PROVE  QuietShift(cl, m, r, z) /\ PointHolds(cl, m, h, hs, fu, ac2, z)
<1>1. UnitsOf(cl, z) = UnitsOf(cl, r) /\ PaysWith(cl, z) = PaysWith(cl, r)
  BY UnitsOfSame
<1>2. UnitsOf(cl, r) \in Nat /\ z.amount = r.amount
  BY UnitsTypes DEF SamePayment
<1>3. ToSend(cl, z) = ToSend(cl, r) /\ Unheard(cl, z) = 0 /\ Unheard(cl, r) = 0
  BY <1>1 DEF ToSend, Unheard
<1>4. QuietShift(cl, m, r, z)
  BY <1>1, <1>2, <1>3 DEF QuietShift, ToSend
<1>5. PointHolds(cl, m, h, hs, fu, ac2, z)
  <2>1. ~m /\ cl = "phantom" => hs[h] + z.amount <= Limit
    BY <1>2 DEF PointHolds
  <2> QED
    BY <1>1, <2>1 DEF PointHolds
<1> QED
  BY <1>4, <1>5

LEMMA ReturnsKeep ==
    ASSUME CallsInv, NEW c \in Workers, Paying!Return(c),
           call[c].pc \in {"create", "look", "send"} \/ (call[c].pc = "answer" /\ client # "mcp"),
           UNCHANGED <<client, hour, hourlySpending, funds, account, lost, asked, mixed>>
    PROVE  CallsInv'
<1>1. CallTypes
  BY DEF CallsInv
<1>2. Elsewhere(c) /\ call'[c] \in CallShape /\ call'[c].pc = "idle"
  BY <1>1, Returns
<1>3. call[c] \in CallShape /\ account' \in BOOLEAN /\ asked' \in 0..MaxCalls
  BY <1>1 DEF CallTypes
<1>4. /\ QuietShift(client, mixed, call[c], call'[c])
      /\ PointHolds(client, mixed, hour, hourlySpending, funds, account', call'[c])
  BY <1>2, <1>3, QuietReturns
<1> QED
  BY <1>2, <1>3, <1>4, QuietGoes

LEMMA SendsNext ==
    ASSUME CallsInv, NEW c \in Workers, Elsewhere(c), call'[c] \in CallShape,
           SamePayment(call'[c], call[c]), call[c].pc = "look", call'[c].pc = "send",
           UNCHANGED <<client, hour, hourlySpending, funds, lost, asked, mixed>>,
           account' \in BOOLEAN, account => account',
           client # "rust" /\ Paying!PaysIn(c) = "token" => account' \/ call'[c].creates,
           (\/ client \in {"python", "phantom"}
            \/ client \in {"rust", "go"} /\ Paying!PaysIn(c) = "SOL")
               => CanLandWith(client, call'[c], funds, account')
    PROVE  CallsInv'
<1>1. CallTypes /\ PointHolds(client, mixed, hour, hourlySpending, funds, account, call[c])
  BY DEF CallsInv
<1>2. call[c] \in CallShape /\ account \in BOOLEAN /\ asked' \in 0..MaxCalls
  BY <1>1 DEF CallTypes
<1>3. Paying!PaysIn(c) = PaysWith(client, call[c])
  BY UnitsAre
<1>4. /\ QuietShift(client, mixed, call[c], call'[c])
      /\ PointHolds(client, mixed, hour, hourlySpending, funds, account', call'[c])
  BY <1>1, <1>2, <1>3, QuietToSend
<1> QED
  BY <1>2, <1>4, QuietGoes

LEMMA LooksKeep ==
    ASSUME CallsInv, NEW c \in Workers, Looks(c)
    PROVE  CallsInv'
<1>1. CallTypes /\ PointHolds(client, mixed, hour, hourlySpending, funds, account, call[c])
  BY DEF CallsInv
<1>2. /\ Paying!PaysIn(c) = PaysWith(client, call[c])
      /\ Paying!Units(c) = UnitsOf(client, call[c])
  BY UnitsAre
<1>3. call[c] \in CallShape /\ account \in BOOLEAN /\ "send" \in Points
  BY <1>1 DEF CallTypes, Points
<1>4. UnitsOf(client, call[c]) \in Nat
  BY <1>3, UnitsTypes
<1>5. call[c].pc = "look" /\ ~call[c].creates
  BY <1>1 DEF Looks, Paying!LookAtBalance, Paying!OpenAccount, Paying!RustToken,
     Paying!LookForAccount, Paying!At, PointHolds
<1>6. ASSUME Paying!Goto(c, "send")
      PROVE  /\ Elsewhere(c) /\ call'[c] \in CallShape /\ SamePayment(call'[c], call[c])
             /\ call'[c].pc = "send" /\ ~call'[c].creates
             /\ UnitsOf(client, call'[c]) = UnitsOf(client, call[c])
             /\ PaysWith(client, call'[c]) = PaysWith(client, call[c])
  <2>1. /\ Elsewhere(c) /\ call'[c] \in CallShape /\ SamePayment(call'[c], call[c])
        /\ call'[c].pc = "send" /\ call'[c].creates = call[c].creates
    BY <1>1, <1>3, <1>6, Goes
  <2> QED
    BY <1>5, <2>1, UnitsOfSame
<1>7. CASE /\ client \in {"python", "rust", "go", "phantom"}
           /\ Paying!PaysIn(c) = "SOL" /\ Paying!LookAtBalance(c, "SOL", Paying!Units(c))
  <2>1. UNCHANGED <<client, hour, hourlySpending, funds, account, lost, asked, mixed>>
    BY <1>7 DEF Paying!LookAtBalance
  <2>2. CASE funds["SOL"] < Paying!Units(c)
    <3>1. Paying!Return(c)
      BY <1>7, <2>2 DEF Paying!LookAtBalance
    <3> QED
      BY <1>5, <2>1, <3>1, ReturnsKeep
  <2>3. CASE ~(funds["SOL"] < Paying!Units(c))
    <3>1. Paying!Goto(c, "send")
      BY <1>7, <2>3 DEF Paying!LookAtBalance
    <3>2. UnitsOf(client, call[c]) <= funds["SOL"]
      <4>1. funds["SOL"] \in Int
        BY <1>1, CallConstants DEF CallTypes
      <4> QED
        BY <1>2, <1>4, <2>3, <4>1
    <3>3. CanLandWith(client, call'[c], funds, account')
      BY <1>2, <1>6, <1>7, <3>1, <3>2 DEF CanLandWith
    <3>4. account' \in BOOLEAN /\ (account => account') /\ Paying!PaysIn(c) # "token"
      BY <1>3, <1>7, <2>1
    <3> QED
      BY <1>5, <1>6, <2>1, <3>1, <3>3, <3>4, SendsNext
  <2> QED
    BY <2>2, <2>3
<1>8. CASE client \in {"python", "phantom"} /\ Paying!OpenAccount(c)
  <2>1. /\ UNCHANGED <<client, hour, hourlySpending, funds, lost, asked, mixed>>
        /\ account' = TRUE /\ Paying!Goto(c, "send")
        /\ Paying!PaysIn(c) = "token" /\ funds["token"] >= Paying!Units(c)
    BY <1>8 DEF Paying!OpenAccount
  <2>2. UnitsOf(client, call[c]) <= funds["token"]
    <3>1. funds["token"] \in Int
      BY <1>1, CallConstants DEF CallTypes
    <3> QED
      BY <1>2, <1>4, <2>1, <3>1
  <2>3. CanLandWith(client, call'[c], funds, account')
    BY <1>2, <1>6, <2>1, <2>2 DEF CanLandWith
  <2>4. account' \in BOOLEAN /\ (account => account')
    BY <2>1
  <2> QED
    BY <1>5, <1>6, <2>1, <2>3, <2>4, SendsNext
<1>9. CASE client = "rust" /\ Paying!RustToken(c)
  <2>1. /\ UNCHANGED <<client, hour, hourlySpending, funds, account, lost, asked, mixed>>
        /\ Paying!Goto(c, "send") /\ Paying!PaysIn(c) = "token"
    BY <1>9 DEF Paying!RustToken
  <2>2. account' \in BOOLEAN /\ (account => account')
    BY <1>3, <2>1
  <2> QED
    BY <1>5, <1>6, <1>9, <2>1, <2>2, SendsNext
<1>10. CASE /\ Paying!LookForAccount(c)
            /\ \/ client \in {"javascript", "cdp", "mcp"}
               \/ client = "go" /\ Paying!PaysIn(c) = "token"
  <2>1. UNCHANGED <<client, hour, hourlySpending, funds, account, lost, asked, mixed>>
    BY <1>10 DEF Paying!LookForAccount
  <2>2. /\ Elsewhere(c) /\ call'[c] \in CallShape /\ SamePayment(call'[c], call[c])
        /\ call'[c].pc = "send"
        /\ Paying!PaysIn(c) = "token" => account \/ call'[c].creates
    BY <1>1, <1>10, LooksForAccount
  <2>3. account' \in BOOLEAN /\ (account => account')
    BY <1>3, <2>1
  <2> QED
    BY <1>5, <1>10, <2>1, <2>2, <2>3, SendsNext
<1> QED
  BY <1>7, <1>8, <1>9, <1>10 DEF Looks

LEMMA PointSet ==
    ASSUME NEW r \in CallShape, NEW p \in Points, NEW z, z = AtPoint(r, p)
    PROVE  /\ z \in CallShape /\ SamePayment(z, r) /\ z.pc = p
           /\ z.creates = r.creates /\ z.lands = r.lands /\ z.read = r.read
BY FieldsSet

LEMMA LandsSet ==
    ASSUME NEW r \in CallShape, NEW b \in BOOLEAN, NEW z, z = WithLands(r, b)
    PROVE  /\ z \in CallShape /\ SamePayment(z, r) /\ z.pc = r.pc
           /\ z.creates = r.creates /\ z.lands = b /\ z.read = r.read
BY FieldsSet

LEMMA ReadSet ==
    ASSUME NEW r \in CallShape, NEW x \in (0..MaxHour) \X Nat, NEW z, z = WithRead(r, x)
    PROVE  /\ z \in CallShape /\ SamePayment(z, r) /\ z.pc = r.pc
           /\ z.creates = r.creates /\ z.lands = r.lands /\ z.read = x
BY FieldsSet

\* Steps that take a call on and change nothing else
LEMMA GoesOn ==
    ASSUME CallsInv, NEW c \in Workers, NEW p \in {"look", "answer"}, Paying!Goto(c, p),
           UNCHANGED <<client, hour, hourlySpending, funds, account, lost, asked, mixed>>,
           call[c].pc \in {"create", "confirm"},
           p = "look" => /\ call[c].pc = "create" /\ client \in {"phantom", "cdp", "mcp"}
                         /\ client = "phantom" => hourlySpending[hour] + call[c].amount <= Limit,
           p = "answer" => /\ call[c].pc = "confirm" /\ client \notin {"phantom", "cdp"}
                           /\ client = "mcp" => call[c].lands
    PROVE  CallsInv'
<1>1. CallTypes /\ PointHolds(client, mixed, hour, hourlySpending, funds, account, call[c])
  BY DEF CallsInv
<1>2. call[c] \in CallShape /\ account \in BOOLEAN /\ asked \in 0..MaxCalls /\ p \in Points
  BY <1>1 DEF CallTypes, Points
<1>3. /\ Elsewhere(c) /\ call'[c] \in CallShape /\ SamePayment(call'[c], call[c])
      /\ call'[c].pc = p /\ call'[c].creates = call[c].creates
      /\ call'[c].lands = call[c].lands
  BY <1>1, <1>2, Goes
<1>4. UnitsOf(client, call'[c]) = UnitsOf(client, call[c])
  BY <1>3, UnitsOfSame
<1>5. QuietShift(client, mixed, call[c], call'[c])
  <2>1. CASE p = "look"
    <3>1. Unheard(client, call'[c]) = 0 /\ Unheard(client, call[c]) = 0
      BY <1>3, <2>1 DEF Unheard
    <3> QED
      BY <2>1, <3>1 DEF QuietShift, CountsFirst
  <2>2. CASE p = "answer"
    <3>1. ToSend(client, call'[c]) = 0 /\ ToSend(client, call[c]) = 0
      BY <1>3, <2>2 DEF ToSend
    <3>2. client = "mcp" => Unheard(client, call'[c]) = Unheard(client, call[c])
      BY <1>3, <1>4, <2>2 DEF Unheard
    <3> QED
      BY <2>2, <3>1, <3>2 DEF QuietShift, CountsLater
  <2> QED
    BY <2>1, <2>2
<1>6. PointHolds(client, mixed, hour, hourlySpending, funds, account', call'[c])
  <2>1. call'[c].amount = call[c].amount
    BY <1>3 DEF SamePayment
  <2>2. p = "look" => ~call[c].creates
    BY <1>1 DEF PointHolds
  <2> QED
    BY <1>3, <2>1, <2>2 DEF PointHolds
<1>7. account' \in BOOLEAN /\ (account => account') /\ asked' \in 0..MaxCalls
  BY <1>2
<1> QED
  BY <1>3, <1>5, <1>6, <1>7, QuietGoes

LEMMA ConfirmKeeps ==
    ASSUME CallsInv, NEW c \in Workers, Paying!Confirm(c), client \notin {"phantom", "cdp"},
           client = "mcp" => call[c].lands
    PROVE  CallsInv'
BY GoesOn DEF Paying!Confirm, Paying!At

LEMMA CreateKeeps ==
    ASSUME CallsInv, NEW c \in Workers, Paying!Create(c), client \in {"cdp", "mcp"}
    PROVE  CallsInv'
BY GoesOn DEF Paying!Create, Paying!At

LEMMA CheckLimitKeeps ==
    ASSUME CallsInv, NEW c \in Workers, Paying!CheckLimit(c), client = "phantom"
    PROVE  CallsInv'
<1>1. /\ UNCHANGED <<client, hour, hourlySpending, funds, account, lost, asked, mixed>>
      /\ call[c].pc = "create"
  BY DEF Paying!CheckLimit, Paying!At
<1>2. CASE hourlySpending[hour] + call[c].amount > Limit
  <2>1. Paying!Return(c)
    BY <1>2 DEF Paying!CheckLimit
  <2> QED
    BY <1>1, <2>1, ReturnsKeep
<1>3. CASE ~(hourlySpending[hour] + call[c].amount > Limit)
  <2>1. Paying!Goto(c, "look")
    BY <1>3 DEF Paying!CheckLimit
  <2>2. hourlySpending[hour] \in Nat /\ call[c].amount \in Nat /\ Limit \in Nat
    <3>1. call[c] \in CallShape /\ hourlySpending[hour] \in Nat
      BY DEF CallsInv, CallTypes
    <3> QED
      BY <3>1, UnitsTypes, CallConstants
  <2>3. hourlySpending[hour] + call[c].amount <= Limit
    BY <1>3, <2>2
  <2> QED
    BY <1>1, <2>1, <2>3, GoesOn
<1> QED
  BY <1>2, <1>3

LEMMA GoReadsKeeps ==
    ASSUME CallsInv, NEW c \in Workers, Paying!GoReads(c), client = "go"
    PROVE  CallsInv'
<1>1. CallTypes
  BY DEF CallsInv
<1>2. /\ UNCHANGED <<client, hour, hourlySpending, funds, account, lost, asked, mixed>>
      /\ call[c].pc = "create"
      /\ call' = [call EXCEPT ![c].pc = "track", ![c].read = <<hour, hourlySpending[hour]>>]
  BY DEF Paying!GoReads, Paying!At
<1> DEFINE x == <<hour, hourlySpending[hour]>>
           y == AtPoint(call[c], "track")
           z == WithRead(y, x)
<1>3. /\ call[c] \in CallShape /\ "track" \in Points /\ x \in (0..MaxHour) \X Nat
      /\ account \in BOOLEAN /\ asked \in 0..MaxCalls
  BY <1>1 DEF CallTypes, Points
<1>4. y \in CallShape /\ y.pc = "track" /\ y.creates = call[c].creates /\ y.lands = call[c].lands
  BY <1>3, PointSet
<1>5. call' = [[call EXCEPT ![c] = y] EXCEPT ![c] = WithRead([call EXCEPT ![c] = y][c], x)]
  BY <1>2 DEF AtPoint, WithRead
<1>6. x[1] = hour /\ x[2] = hourlySpending[hour]
  OBVIOUS
<1> HIDE DEF y, x
<1>7. z \in CallShape /\ z.pc = "track" /\ z.creates = call[c].creates /\ z.read = x
  BY <1>3, <1>4, ReadSet
<1>8. call' = [call EXCEPT ![c] = z]
  BY <1>1, <1>4, <1>5, TwoChanges
<1> HIDE DEF z
<1>9. Elsewhere(c) /\ call'[c] = z
  BY <1>1, <1>7, <1>8, OneChange DEF Elsewhere
<1>10. QuietShift(client, mixed, call[c], call'[c])
  <2>1. ToSend(client, call'[c]) = 0 /\ ToSend(client, call[c]) = 0
    BY <1>2, <1>7, <1>9 DEF ToSend
  <2> QED
    BY <2>1 DEF QuietShift, CountsLater
<1>11. PointHolds(client, mixed, hour, hourlySpending, funds, account', call'[c])
  <2>1. ~call[c].creates
    BY <1>2 DEF CallsInv, PointHolds
  <2> QED
    BY <1>6, <1>7, <1>9, <2>1 DEF PointHolds
<1>12. /\ account' \in BOOLEAN /\ (account => account') /\ asked' \in 0..MaxCalls
       /\ call[c].pc # "idle"
  BY <1>2, <1>3
<1> QED
  BY <1>2, <1>9, <1>10, <1>11, <1>12, QuietGoes

\* A request is answered by 402: nothing is paid or counted yet.
LEMMA AsksKeep ==
    ASSUME CallsInv, NEW c \in Workers,
           Paying!Ask(c) \/ (client = "cdp" /\ Paying!AskAgain(c))
    PROVE  CallsInv'
<1>1. CallTypes
  BY DEF CallsInv
<1>2. /\ Elsewhere(c) /\ call'[c] \in CallShape
      /\ call'[c].pc = "create" /\ ~call'[c].creates /\ ~call'[c].lands
  BY <1>1, Asks
<1>3. /\ UNCHANGED <<client, hour, hourlySpending, funds, account, lost>>
      /\ asked < MaxCalls /\ asked' = asked + 1
  BY DEF Paying!Ask, Paying!AskAgain
<1>4. /\ mixed' \in BOOLEAN /\ (mixed => mixed')
      /\ ~mixed' => \A d \in Workers \ {c} : call[d].pc = "idle"
      /\ ToSend(client, call[c]) = 0 /\ Unheard(client, call[c]) = 0
  <2>1. CASE Paying!Ask(c)
    <3>1. /\ call[c].pc = "idle"
          /\ mixed' = (mixed \/ \E d \in Workers \ {c} : call[d].pc # "idle")
      BY <2>1 DEF Paying!Ask, Paying!At
    <3>2. mixed \in BOOLEAN
      BY <1>1 DEF CallTypes
    <3> QED
      BY <3>1, <3>2 DEF ToSend, Unheard
  <2>2. CASE client = "cdp" /\ Paying!AskAgain(c)
    <3>1. call[c].pc = "answer" /\ mixed' = mixed
      BY <2>2 DEF Paying!AskAgain, Paying!At
    <3>2. mixed \in BOOLEAN
      BY <1>1 DEF CallTypes
    <3> QED
      BY <2>2, <3>1, <3>2 DEF ToSend, Unheard, CallsInv, OneAtATime
  <2> QED
    BY <2>1, <2>2
<1>5. CallTypes'
  <2>1. asked' \in 0..MaxCalls
    BY <1>1, <1>3, CallConstants DEF CallTypes
  <2> QED
    BY <1>1, <1>2, <1>3, <1>4, <2>1 DEF CallTypes, Elsewhere
<1>6. OnlyCall(c)
  BY <1>2, <1>3, <1>4 DEF OnlyCall
<1>7. Shifts(client, mixed', Paid(funds), Reported(hourlySpending), lost, call[c],
             Paid(funds'), Reported(hourlySpending'), lost', call'[c])
  <2>1. ASSUME NEW m, NEW p \in Int, NEW r \in Int, NEW l \in Int
        PROVE  Shifts(client, m, p, r, l, call[c], p, r, l, call'[c])
    <3>1. ToSend(client, call'[c]) = 0 /\ Unheard(client, call'[c]) = 0
      BY <1>2 DEF ToSend, Unheard
    <3> QED
      BY <1>4, <3>1 DEF Shifts
  <2>2. Paid(funds) \in Int /\ Reported(hourlySpending) \in Int /\ lost \in Int
    BY <1>1, PaidType, TotalType DEF CallTypes
  <2>3. Shifts(client, mixed', Paid(funds), Reported(hourlySpending), lost, call[c],
               Paid(funds), Reported(hourlySpending), lost, call'[c])
    BY <2>1, <2>2
  <2> QED
    BY <1>3, <2>3
<1>8. PointHolds(client, mixed', hour, hourlySpending', funds', account', call'[c])
  BY <1>2 DEF PointHolds
<1>9. HourKept(client, mixed', hour, hourlySpending')
  BY <1>3, <1>4 DEF CallsInv, HourKept
<1> QED
  BY <1>5, <1>6, <1>7, <1>8, <1>9, CallGoes

\* An amount is counted.
CountShift(cl, m, r, z) ==
    /\ CountsFirst(cl, m) => ToSend(cl, z) - ToSend(cl, r) <= r.amount * Whole
    /\ CountsLater(cl) => 0 <= r.amount * Whole + (Unheard(cl, z) - Unheard(cl, r))
    /\ cl = "mcp" => 0 >= r.amount * Whole + (Unheard(cl, z) - Unheard(cl, r))

LEMMA CountsGo ==
    ASSUME CallsInv, NEW c \in Workers, Elsewhere(c), call[c].pc # "idle",
           Paying!Spend(call[c].amount),
           UNCHANGED <<client, hour, funds, account, lost, asked, mixed>>,
           CountShift(client, mixed, call[c], call'[c]),
           PointHolds(client, mixed, hour, hourlySpending', funds, account, call'[c]),
           HourKept(client, mixed, hour, hourlySpending')
    PROVE  CallsInv'
<1>1. CallTypes
  BY DEF CallsInv
<1>2. /\ call[c] \in CallShape /\ call'[c] \in CallShape /\ hour \in 0..MaxHour
      /\ hourlySpending \in [0..MaxHour -> Nat]
  BY <1>1 DEF CallTypes, Elsewhere
<1>3. call[c].amount \in Nat /\ call[c].amount * Whole \in Nat
  BY <1>2, UnitsTypes
<1>4. hourlySpending' = MoreAt(hourlySpending, hour, call[c].amount)
  BY DEF Paying!Spend, MoreAt
<1>5. hourlySpending' \in [0..MaxHour -> Nat]
  BY <1>2, <1>3, <1>4 DEF MoreAt
<1>6. Reported(hourlySpending') = Reported(hourlySpending) + call[c].amount * Whole
  BY <1>2, <1>3, <1>4, ReportsMore
<1>7. CallTypes'
  BY <1>1, <1>5 DEF CallTypes, Elsewhere
<1>8. ~mixed => \A d \in Workers \ {c} : call[d].pc = "idle"
  BY DEF CallsInv, OneAtATime
<1>9. OnlyCall(c)
  BY <1>8 DEF OnlyCall
<1>10. Shifts(client, mixed', Paid(funds), Reported(hourlySpending), lost, call[c],
              Paid(funds'), Reported(hourlySpending'), lost', call'[c])
  <2>1. ASSUME NEW p \in Int, NEW r \in Int, NEW l \in Int, NEW r2 \in Int,
               r2 = r + call[c].amount * Whole
        PROVE  Shifts(client, mixed, p, r, l, call[c], p, r2, l, call'[c])
    <3> DEFINE x == ToSend(client, call[c])
               y == Unheard(client, call[c])
               x2 == ToSend(client, call'[c])
               y2 == Unheard(client, call'[c])
               n == call[c].amount * Whole
    <3>1. x \in Nat /\ y \in Nat /\ x2 \in Nat /\ y2 \in Nat /\ n \in Nat /\ r2 = r + n
      BY <1>2, <1>3, <2>1, UnitsTypes
    <3>2. /\ CountsFirst(client, mixed) => x2 - x <= n
          /\ CountsLater(client) => 0 <= n + (y2 - y)
          /\ client = "mcp" => 0 >= n + (y2 - y)
      BY DEF CountShift
    <3> HIDE DEF x, y, x2, y2, n
    <3>3. /\ CountsFirst(client, mixed) => (p - p) + (x2 - x) <= r2 - r
          /\ CountsLater(client) => p - p <= (r2 - r) + (l - l) + (y2 - y)
          /\ client = "mcp" => p - p >= (r2 - r) + (l - l) + (y2 - y)
      BY <3>1, <3>2
    <3> QED
      BY <3>3 DEF Shifts, x, y, x2, y2
  <2>2. Paid(funds) \in Int /\ Reported(hourlySpending) \in Int /\ lost \in Int
    BY <1>1, PaidType, TotalType DEF CallTypes
  <2>3. Reported(hourlySpending') \in Int
    BY <1>5, TotalType
  <2>4. Shifts(client, mixed, Paid(funds), Reported(hourlySpending), lost, call[c],
               Paid(funds), Reported(hourlySpending'), lost, call'[c])
    BY <1>6, <2>1, <2>2, <2>3
  <2> QED
    BY <2>4
<1>11. /\ PointHolds(client, mixed', hour, hourlySpending', funds', account', call'[c])
       /\ HourKept(client, mixed', hour, hourlySpending')
  OBVIOUS
<1> QED
  BY <1>7, <1>9, <1>10, <1>11, CallGoes

LEMMA TrackKeeps ==
    ASSUME CallsInv, NEW c \in Workers, Paying!Track(c), client \in {"javascript", "python", "rust"}
    PROVE  CallsInv'
<1>1. CallTypes /\ PointHolds(client, mixed, hour, hourlySpending, funds, account, call[c])
  BY DEF CallsInv
<1>2. /\ call[c].pc = "create" /\ Paying!Spend(call[c].amount) /\ Paying!Goto(c, "look")
      /\ UNCHANGED <<client, hour, funds, account, lost, asked, mixed>>
  BY DEF Paying!Track, Paying!At
<1>3. call[c] \in CallShape /\ "look" \in Points
  BY <1>1 DEF CallTypes, Points
<1>4. /\ Elsewhere(c) /\ SamePayment(call'[c], call[c])
      /\ call'[c].pc = "look" /\ call'[c].creates = call[c].creates
  BY <1>1, <1>2, <1>3, Goes
<1>5. UnitsOf(client, call'[c]) = UnitsOf(client, call[c])
  BY <1>4, UnitsOfSame
<1>6. /\ UnitsOf(client, call[c]) \in Nat /\ call[c].amount * Whole \in Nat
      /\ UnitsOf(client, call[c]) <= call[c].amount * Whole
  BY <1>3, UnitsTypes
<1>7. ToSend(client, call[c]) = 0 /\ ToSend(client, call'[c]) = UnitsOf(client, call[c])
  BY <1>2, <1>4, <1>5 DEF ToSend
<1>8. CountShift(client, mixed, call[c], call'[c])
  BY <1>6, <1>7 DEF CountShift, CountsLater
<1>9. /\ PointHolds(client, mixed, hour, hourlySpending', funds, account, call'[c])
      /\ HourKept(client, mixed, hour, hourlySpending')
  BY <1>1, <1>2, <1>4 DEF PointHolds, HourKept
<1> QED
  BY <1>2, <1>4, <1>8, <1>9, CountsGo

LEMMA TrackConfirmedKeeps ==
    ASSUME CallsInv, NEW c \in Workers, Paying!TrackConfirmed(c), client \in {"phantom", "cdp"}
    PROVE  CallsInv'
<1>1. CallTypes /\ PointHolds(client, mixed, hour, hourlySpending, funds, account, call[c])
  BY DEF CallsInv
<1>2. /\ call[c].pc = "confirm" /\ Paying!Spend(call[c].amount) /\ Paying!Goto(c, "answer")
      /\ UNCHANGED <<client, hour, funds, account, lost, asked, mixed>>
  BY DEF Paying!TrackConfirmed, Paying!At
<1>3. call[c] \in CallShape /\ "answer" \in Points
  BY <1>1 DEF CallTypes, Points
<1>4. Elsewhere(c) /\ call'[c].pc = "answer"
  BY <1>1, <1>2, <1>3, Goes
<1>5. /\ call[c].amount \in Nat /\ call[c].amount * Whole \in Nat
      /\ UnitsOf(client, call[c]) = call[c].amount * Whole
  BY <1>3, UnitsTypes
<1>6. Unheard(client, call'[c]) = 0 /\ Unheard(client, call[c]) \in {0, call[c].amount * Whole}
  BY <1>4, <1>5 DEF Unheard
<1>7. CountShift(client, mixed, call[c], call'[c])
  <2>1. /\ ~CountsFirst(client, mixed)
        /\ client # "mcp"
    BY DEF CountsFirst
  <2>2. 0 <= call[c].amount * Whole + (Unheard(client, call'[c]) - Unheard(client, call[c]))
    BY <1>5, <1>6
  <2> QED
    BY <2>1, <2>2 DEF CountShift
<1>8. PointHolds(client, mixed, hour, hourlySpending', funds, account, call'[c])
  BY <1>4 DEF PointHolds
<1>9. HourKept(client, mixed, hour, hourlySpending')
  <2>1. SUFFICES ASSUME client = "phantom", ~mixed, NEW i \in 0..MaxHour
                 PROVE  hourlySpending'[i] <= Limit /\ (i > hour => hourlySpending'[i] = 0)
    BY DEF HourKept
  <2>2. hourlySpending[i] <= Limit /\ (i > hour => hourlySpending[i] = 0)
    BY <2>1 DEF CallsInv, HourKept
  <2>3. hourlySpending[hour] + call[c].amount <= Limit
    BY <1>1, <1>2, <2>1 DEF PointHolds
  <2>4. /\ hourlySpending \in [0..MaxHour -> Nat] /\ hour \in 0..MaxHour
        /\ hourlySpending' = [hourlySpending EXCEPT ![hour] = @ + call[c].amount]
    BY <1>1, <1>2 DEF CallTypes, Paying!Spend
  <2>5. CASE i = hour
    <3>1. hourlySpending'[i] = hourlySpending[hour] + call[c].amount
      BY <2>4, <2>5
    <3>2. ~(i > hour)
      BY <2>5, CallConstants
    <3> QED
      BY <2>3, <3>1, <3>2
  <2>6. CASE i # hour
    BY <2>2, <2>4, <2>6
  <2> QED
    BY <2>5, <2>6
<1> QED
  BY <1>2, <1>4, <1>7, <1>8, <1>9, CountsGo

LEMMA RecordKeeps ==
    ASSUME CallsInv, NEW c \in Workers, Paying!Record(c), client = "mcp"
    PROVE  CallsInv'
<1>1. CallTypes /\ PointHolds(client, mixed, hour, hourlySpending, funds, account, call[c])
  BY DEF CallsInv
<1>2. /\ call[c].pc = "answer" /\ Paying!Spend(call[c].amount) /\ Paying!Return(c)
      /\ UNCHANGED <<client, hour, funds, account, lost, asked, mixed>>
  BY DEF Paying!Record, Paying!At
<1>3. call[c] \in CallShape /\ call[c].lands
  BY <1>1, <1>2 DEF CallTypes, PointHolds
<1>4. Elsewhere(c) /\ call'[c].pc = "idle"
  BY <1>1, <1>2, Returns
<1>5. /\ call[c].amount * Whole \in Nat
      /\ UnitsOf(client, call[c]) = call[c].amount * Whole
  BY <1>3, UnitsTypes
<1>6. Unheard(client, call'[c]) = 0 /\ Unheard(client, call[c]) = call[c].amount * Whole
  BY <1>2, <1>3, <1>4, <1>5 DEF Unheard
<1>7. CountShift(client, mixed, call[c], call'[c])
  BY <1>5, <1>6 DEF CountShift, CountsFirst
<1>8. /\ PointHolds(client, mixed, hour, hourlySpending', funds, account, call'[c])
      /\ HourKept(client, mixed, hour, hourlySpending')
  BY <1>4 DEF PointHolds, HourKept
<1> QED
  BY <1>2, <1>4, <1>7, <1>8, CountsGo

\* A call fails whose payment may have landed.
LEMMA FailKeeps ==
    ASSUME CallsInv, NEW c \in Workers,
           Paying!Fail(c, "confirm") \/ (client = "mcp" /\ Paying!Fail(c, "answer"))
    PROVE  CallsInv'
<1>1. CallTypes
  BY DEF CallsInv
<1>2. /\ call[c].pc = "confirm" \/ (client = "mcp" /\ call[c].pc = "answer")
      /\ lost' = lost + (IF call[c].lands THEN Paying!Units(c) ELSE 0)
      /\ Paying!Return(c)
      /\ UNCHANGED <<client, hour, hourlySpending, funds, account, asked, mixed>>
  BY DEF Paying!Fail, Paying!At
<1>3. call[c] \in CallShape
  BY <1>1 DEF CallTypes
<1>4. Elsewhere(c) /\ call'[c].pc = "idle"
  BY <1>1, <1>2, Returns
<1>5. lost' = lost + Unheard(client, call[c]) /\ Unheard(client, call[c]) \in Nat
  BY <1>2, <1>3, UnitsAre, UnitsTypes DEF Unheard
<1>6. CallTypes'
  BY <1>1, <1>2, <1>4, <1>5 DEF CallTypes, Elsewhere
<1>7. OnlyCall(c)
  <2>1. ~mixed => \A d \in Workers \ {c} : call[d].pc = "idle"
    BY <1>2 DEF CallsInv, OneAtATime
  <2> QED
    BY <1>2, <1>4, <2>1 DEF OnlyCall
<1>8. Shifts(client, mixed', Paid(funds), Reported(hourlySpending), lost, call[c],
             Paid(funds'), Reported(hourlySpending'), lost', call'[c])
  <2>1. ASSUME NEW p \in Int, NEW r \in Int, NEW l \in Int, NEW l2 \in Int,
               l2 = l + Unheard(client, call[c])
        PROVE  Shifts(client, mixed, p, r, l, call[c], p, r, l2, call'[c])
    <3>1. /\ ToSend(client, call'[c]) = 0 /\ Unheard(client, call'[c]) = 0
          /\ ToSend(client, call[c]) = 0
      BY <1>2, <1>4 DEF ToSend, Unheard
    <3> DEFINE y == Unheard(client, call[c])
    <3>2. y \in Nat /\ l2 = l + y
      BY <1>5, <2>1
    <3> HIDE DEF y
    <3>3. /\ (p - p) + (0 - 0) <= r - r
          /\ p - p <= (r - r) + (l2 - l) + (0 - y)
          /\ p - p >= (r - r) + (l2 - l) + (0 - y)
      BY <3>2
    <3> QED
      BY <3>1, <3>3 DEF Shifts, y
  <2>2. Paid(funds) \in Int /\ Reported(hourlySpending) \in Int /\ lost \in Int /\ lost' \in Int
    BY <1>1, <1>6, PaidType, TotalType DEF CallTypes
  <2>3. Shifts(client, mixed, Paid(funds), Reported(hourlySpending), lost, call[c],
               Paid(funds), Reported(hourlySpending), lost', call'[c])
    BY <1>5, <2>1, <2>2
  <2> QED
    BY <1>2, <2>3
<1>9. /\ PointHolds(client, mixed', hour, hourlySpending', funds', account', call'[c])
      /\ HourKept(client, mixed', hour, hourlySpending')
  BY <1>2, <1>4 DEF CallsInv, PointHolds
<1> QED
  BY <1>6, <1>7, <1>8, <1>9, CallGoes

LEMMA PaidMore ==
    ASSUME NEW fu \in [{"SOL", "token"} -> 0..WalletFunds], NEW a \in {"SOL", "token"},
           NEW n \in Nat, n <= fu[a], NEW fu2, fu2 = [fu EXCEPT ![a] = @ - n]
    PROVE  fu2 \in [{"SOL", "token"} -> 0..WalletFunds] /\ Paid(fu2) = Paid(fu) + n
<1>1. /\ WalletFunds \in Nat
      /\ fu["SOL"] \in 0..WalletFunds /\ fu["token"] \in 0..WalletFunds /\ fu[a] \in 0..WalletFunds
  BY CallConstants
<1>2. fu[a] - n \in 0..WalletFunds
  BY <1>1
<1>3. fu2 \in [{"SOL", "token"} -> 0..WalletFunds]
  BY <1>2
<1>4. CASE a = "SOL"
  <2>1. fu2["SOL"] = fu["SOL"] - n /\ fu2["token"] = fu["token"]
    BY <1>4
  <2> QED
    BY <1>1, <1>3, <2>1 DEF Paid
<1>5. CASE a = "token"
  <2>1. fu2["token"] = fu["token"] - n /\ fu2["SOL"] = fu["SOL"]
    BY <1>5
  <2> QED
    BY <1>1, <1>3, <2>1 DEF Paid
<1> QED
  BY <1>4, <1>5

LEMMA Sends ==
    ASSUME CallTypes, NEW c \in Workers, NEW b \in BOOLEAN,
           call' = [call EXCEPT ![c].pc = "confirm", ![c].lands = b]
    PROVE  /\ Elsewhere(c) /\ call'[c] \in CallShape /\ SamePayment(call'[c], call[c])
           /\ call'[c].pc = "confirm" /\ call'[c].lands = b
<1> DEFINE y == AtPoint(call[c], "confirm")
           z == WithLands(y, b)
<1>1. call[c] \in CallShape /\ "confirm" \in Points
  BY DEF CallTypes, Points
<1>2. y \in CallShape /\ y.pc = "confirm" /\ SamePayment(y, call[c])
  BY <1>1, PointSet
<1>3. call' = [[call EXCEPT ![c] = y] EXCEPT ![c] = WithLands([call EXCEPT ![c] = y][c], b)]
  BY DEF AtPoint, WithLands
<1> HIDE DEF y
<1>4. z \in CallShape /\ z.pc = "confirm" /\ SamePayment(z, y) /\ z.lands = b
  BY <1>2, LandsSet
<1>5. call' = [call EXCEPT ![c] = z]
  BY <1>2, <1>3, TwoChanges
<1> HIDE DEF z
<1>6. Elsewhere(c) /\ call'[c] = z
  BY <1>4, <1>5, OneChange DEF Elsewhere
<1> QED
  BY <1>2, <1>4, <1>6 DEF SamePayment

LEMMA SendKeeps ==
    ASSUME CallsInv, NEW c \in Workers, Paying!Send(c)
    PROVE  CallsInv'
<1>1. CallTypes /\ PointHolds(client, mixed, hour, hourlySpending, funds, account, call[c])
  BY DEF CallsInv
<1>2. PICK b \in {Paying!CanLand(c), FALSE} :
         /\ call' = [call EXCEPT ![c].pc = "confirm", ![c].lands = b]
         /\ funds' = IF b THEN [funds EXCEPT ![Paying!PaysIn(c)] = @ - Paying!Units(c)] ELSE funds
         /\ account' = (account \/ (b /\ call[c].creates))
  BY DEF Paying!Send
<1>3. call[c].pc = "send" /\ UNCHANGED <<client, hour, hourlySpending, lost, asked, mixed>>
  BY DEF Paying!Send, Paying!At
<1>4. b \in BOOLEAN /\ (b => Paying!CanLand(c))
  BY <1>2 DEF Paying!CanLand
<1>5. /\ call[c] \in CallShape /\ account \in BOOLEAN
      /\ funds \in [{"SOL", "token"} -> 0..WalletFunds]
  BY <1>1 DEF CallTypes
<1>6. /\ Elsewhere(c) /\ call'[c] \in CallShape /\ SamePayment(call'[c], call[c])
      /\ call'[c].pc = "confirm" /\ call'[c].lands = b
  BY <1>1, <1>2, <1>4, Sends
<1>7. UnitsOf(client, call'[c]) = UnitsOf(client, call[c]) /\ UnitsOf(client, call[c]) \in Nat
  BY <1>5, <1>6, UnitsOfSame, UnitsTypes
<1>8. /\ funds' \in [{"SOL", "token"} -> 0..WalletFunds]
      /\ Paid(funds') = Paid(funds) + (IF b THEN UnitsOf(client, call[c]) ELSE 0)
  <2>1. CASE b
    <3>1. /\ PaysWith(client, call[c]) \in {"SOL", "token"}
          /\ UnitsOf(client, call[c]) <= funds[PaysWith(client, call[c])]
          /\ funds' = [funds EXCEPT ![PaysWith(client, call[c])] = @ - UnitsOf(client, call[c])]
      BY <1>2, <1>4, <1>5, <2>1, UnitsAre DEF Paying!CanLand, PaysWith, CallShape
    <3> QED
      BY <1>5, <1>7, <2>1, <3>1, PaidMore
  <2>2. CASE ~b
    <3>1. funds' = funds /\ Paid(funds) \in Int
      BY <1>2, <1>5, <2>2, PaidType
    <3> QED
      BY <1>5, <2>2, <3>1
  <2> QED
    BY <1>4, <2>1, <2>2
<1>9. CallTypes' /\ (account => account')
  <2>1. account' \in BOOLEAN /\ (account => account')
    BY <1>2, <1>5
  <2> QED
    BY <1>1, <1>3, <1>6, <1>8, <2>1 DEF CallTypes, Elsewhere
<1>10. OnlyCall(c)
  <2>1. ~mixed => \A d \in Workers \ {c} : call[d].pc = "idle"
    BY <1>3 DEF CallsInv, OneAtATime
  <2> QED
    BY <1>3, <1>6, <1>9, <2>1 DEF OnlyCall
<1>11. Shifts(client, mixed', Paid(funds), Reported(hourlySpending), lost, call[c],
              Paid(funds'), Reported(hourlySpending'), lost', call'[c])
  <2> DEFINE n == UnitsOf(client, call[c])
             e == IF b THEN n ELSE 0
  <2>1. ASSUME NEW p \in Int, NEW r \in Int, NEW l \in Int, NEW p2 \in Int, p2 = p + e
        PROVE  Shifts(client, mixed, p, r, l, call[c], p2, r, l, call'[c])
    <3>1. /\ ToSend(client, call'[c]) = 0 /\ Unheard(client, call'[c]) = e
          /\ ToSend(client, call[c]) = n /\ Unheard(client, call[c]) = 0
      BY <1>3, <1>6, <1>7 DEF ToSend, Unheard
    <3>2. n \in Nat /\ e \in Nat /\ e <= n /\ p2 = p + e
      BY <1>4, <1>7, <2>1
    <3> HIDE DEF n, e
    <3>3. /\ (p2 - p) + (0 - n) <= r - r
          /\ p2 - p <= (r - r) + (l - l) + (e - 0)
          /\ p2 - p >= (r - r) + (l - l) + (e - 0)
      BY <3>2
    <3> QED
      BY <3>1, <3>3 DEF Shifts
  <2>2. Paid(funds) \in Int /\ Reported(hourlySpending) \in Int /\ lost \in Int
            /\ Paid(funds') \in Int
    BY <1>1, <1>8, PaidType, TotalType DEF CallTypes
  <2>3. Shifts(client, mixed, Paid(funds), Reported(hourlySpending), lost, call[c],
               Paid(funds'), Reported(hourlySpending), lost, call'[c])
    BY <1>8, <2>1, <2>2
  <2> QED
    BY <1>3, <2>3
<1>12. PointHolds(client, mixed', hour, hourlySpending', funds', account', call'[c])
  <2>1. ~mixed /\ client = "phantom" => hourlySpending[hour] + call[c].amount <= Limit
    BY <1>1, <1>3 DEF PointHolds
  <2>2. call'[c].amount = call[c].amount
    BY <1>6 DEF SamePayment
  <2> QED
    BY <1>3, <1>6, <2>1, <2>2 DEF PointHolds
<1>13. HourKept(client, mixed', hour, hourlySpending')
  BY <1>3 DEF CallsInv
<1> QED
  BY <1>9, <1>10, <1>11, <1>12, <1>13, CallGoes

LEMMA GoWritesKeeps ==
    ASSUME CallsInv, NEW c \in Workers, Paying!GoWrites(c), client = "go"
    PROVE  CallsInv'
<1>1. CallTypes /\ PointHolds(client, mixed, hour, hourlySpending, funds, account, call[c])
  BY DEF CallsInv
<1>2. /\ call[c].pc = "track"
      /\ hourlySpending' =
            [hourlySpending EXCEPT ![call[c].read[1]] = call[c].read[2] + call[c].amount]
      /\ call' = [call EXCEPT ![c].pc = "look", ![c].read = <<0, 0>>]
      /\ UNCHANGED <<client, hour, funds, account, lost, asked, mixed>>
  BY DEF Paying!GoWrites, Paying!At
<1> DEFINE x == <<0, 0>>
           y == AtPoint(call[c], "look")
           z == WithRead(y, x)
<1>3. call[c] \in CallShape /\ "look" \in Points /\ x \in (0..MaxHour) \X Nat
  BY <1>1, CallConstants DEF CallTypes, Points
<1>4. y \in CallShape /\ y.pc = "look" /\ y.creates = call[c].creates /\ SamePayment(y, call[c])
  BY <1>3, PointSet
<1>5. call' = [[call EXCEPT ![c] = y] EXCEPT ![c] = WithRead([call EXCEPT ![c] = y][c], x)]
  BY <1>2 DEF AtPoint, WithRead
<1> HIDE DEF y, x
<1>6. z \in CallShape /\ z.pc = "look" /\ z.creates = y.creates /\ SamePayment(z, y)
  BY <1>3, <1>4, ReadSet
<1>7. call' = [call EXCEPT ![c] = z]
  BY <1>1, <1>4, <1>5, TwoChanges
<1> HIDE DEF z
<1>8. /\ Elsewhere(c) /\ call'[c] \in CallShape /\ SamePayment(call'[c], call[c])
      /\ call'[c].pc = "look" /\ call'[c].creates = call[c].creates
  <2>1. Elsewhere(c) /\ call'[c] = z
    BY <1>1, <1>6, <1>7, OneChange DEF Elsewhere
  <2> QED
    BY <1>4, <1>6, <2>1 DEF SamePayment
<1>9. call[c].read[1] \in 0..MaxHour /\ call[c].read[2] \in Nat /\ call[c].amount \in Nat
  <2>1. call[c].read \in (0..MaxHour) \X Nat
    BY <1>3 DEF CallShape
  <2> QED
    BY <1>3, <2>1, UnitsTypes
<1>10. hourlySpending \in [0..MaxHour -> Nat] /\ hourlySpending' \in [0..MaxHour -> Nat]
  BY <1>1, <1>2, <1>9 DEF CallTypes
<1>11. CallTypes'
  BY <1>1, <1>2, <1>8, <1>10 DEF CallTypes, Elsewhere
<1>12. OnlyCall(c)
  <2>1. ~mixed => \A d \in Workers \ {c} : call[d].pc = "idle"
    BY <1>2 DEF CallsInv, OneAtATime
  <2> QED
    BY <1>2, <1>8, <2>1 DEF OnlyCall
<1>13. ~mixed => Reported(hourlySpending') = Reported(hourlySpending) + call[c].amount * Whole
  <2>1. ASSUME ~mixed
        PROVE  hourlySpending' = MoreAt(hourlySpending, call[c].read[1], call[c].amount)
    <3>1. hourlySpending[call[c].read[1]] = call[c].read[2]
      BY <1>1, <1>2, <2>1 DEF PointHolds
    <3> QED
      BY <1>2, <1>9, <1>10, <3>1 DEF MoreAt
  <2> QED
    BY <1>9, <1>10, <2>1, ReportsMore
<1>14. Shifts(client, mixed', Paid(funds), Reported(hourlySpending), lost, call[c],
              Paid(funds'), Reported(hourlySpending'), lost', call'[c])
  <2>1. ASSUME NEW p \in Int, NEW r \in Int, NEW l \in Int, NEW r2 \in Int,
               ~mixed => r2 = r + call[c].amount * Whole
        PROVE  Shifts(client, mixed, p, r, l, call[c], p, r2, l, call'[c])
    <3> DEFINE n == UnitsOf(client, call[c])
               w == call[c].amount * Whole
    <3>1. n \in Nat /\ w \in Nat /\ n <= w /\ (~mixed => r2 = r + w)
      BY <1>3, <2>1, UnitsTypes
    <3>2. ToSend(client, call'[c]) = n /\ ToSend(client, call[c]) = 0
      BY <1>2, <1>8, UnitsOfSame DEF ToSend
    <3> HIDE DEF n, w
    <3>3. ~mixed => (p - p) + (n - 0) <= r2 - r
      BY <3>1
    <3> QED
      BY <3>2, <3>3 DEF Shifts, CountsFirst, CountsLater
  <2>2. Paid(funds) \in Int /\ Reported(hourlySpending) \in Int /\ lost \in Int
    BY <1>1, PaidType, TotalType DEF CallTypes
  <2>3. Reported(hourlySpending') \in Int
    BY <1>10, TotalType
  <2>4. Shifts(client, mixed, Paid(funds), Reported(hourlySpending), lost, call[c],
               Paid(funds), Reported(hourlySpending'), lost, call'[c])
    BY <1>13, <2>1, <2>2, <2>3
  <2> QED
    BY <1>2, <2>4
<1>15. /\ PointHolds(client, mixed', hour, hourlySpending', funds', account', call'[c])
       /\ HourKept(client, mixed', hour, hourlySpending')
  BY <1>1, <1>2, <1>8 DEF PointHolds, HourKept
<1> QED
  BY <1>11, <1>12, <1>14, <1>15, CallGoes

\* The Go runtime notices two writes: calls overlapped, and nothing is promised any more.
LEMMA GoDiesKeeps ==
    ASSUME CallsInv, NEW c \in Workers, Paying!GoDies(c), client = "go"
    PROVE  CallsInv'
<1>1. CallTypes
  BY DEF CallsInv
<1>2. /\ call[c].pc = "track" /\ \E d \in Workers \ {c} : call[d].pc = "track"
      /\ call' = [d \in Workers |-> AtPoint(Paying!Idle, "dead")]
      /\ UNCHANGED <<client, hour, hourlySpending, funds, account, lost, asked, mixed>>
  BY DEF Paying!GoDies, Paying!At, AtPoint
<1>3. mixed
  BY <1>2 DEF CallsInv, OneAtATime
<1> DEFINE z == AtPoint(Paying!Idle, "dead")
<1>4. z \in CallShape /\ z.pc = "dead"
  <2>1. "dead" \in Points
    BY DEF Points
  <2> QED
    BY <2>1, IdleShape, PointSet
<1>5. call' = [d \in Workers |-> z]
  BY <1>2
<1> HIDE DEF z
<1>6. call' \in [Workers -> CallShape] /\ \A d \in Workers : call'[d].pc = "dead"
  BY <1>4, <1>5
<1>7. CallTypes'
  BY <1>1, <1>2, <1>6 DEF CallTypes
<1>8. SumsBalance(client', mixed', Paid(funds'), Reported(hourlySpending'), lost', call')
  <2>1. ~CountsFirst(client', mixed') /\ ~CountsLater(client') /\ client' # "mcp"
    BY <1>2, <1>3 DEF CountsFirst, CountsLater
  <2> QED
    BY <2>1 DEF SumsBalance, Balanced
<1>9. OneAtATime(mixed', call') /\ HourKept(client', mixed', hour', hourlySpending')
  BY <1>2, <1>3 DEF OneAtATime, HourKept
<1>10. \A d \in Workers : PointHolds(client', mixed', hour', hourlySpending', funds', account',
           call'[d])
  BY <1>6 DEF PointHolds
<1> QED
  BY <1>7, <1>8, <1>9, <1>10 DEF CallsInv

\* A new hour begins: nothing has been spent in it.
LEMMA HourKeeps ==
    ASSUME CallsInv, Paying!Hour
    PROVE  CallsInv'
<1>1. CallTypes
  BY DEF CallsInv
<1>2. /\ hour < MaxHour /\ hour' = hour + 1
      /\ UNCHANGED <<client, hourlySpending, call, funds, account, lost, asked, mixed>>
  BY DEF Paying!Hour
<1>3. hour + 1 \in 0..MaxHour /\ hour + 1 > hour
  BY <1>1, <1>2, CallConstants DEF CallTypes
<1>4. CallTypes'
  BY <1>1, <1>2, <1>3 DEF CallTypes
<1>5. HourKept(client, mixed, hour + 1, hourlySpending)
  <2>1. SUFFICES ASSUME client = "phantom", ~mixed, NEW i \in 0..MaxHour
                 PROVE  hourlySpending[i] <= Limit /\ (i > hour + 1 => hourlySpending[i] = 0)
    BY DEF HourKept
  <2>2. hourlySpending[i] <= Limit /\ (i > hour => hourlySpending[i] = 0)
    BY <2>1 DEF CallsInv, HourKept
  <2>3. i > hour + 1 => i > hour
    BY <1>1, CallConstants DEF CallTypes
  <2> QED
    BY <2>2, <2>3
<1>6. ASSUME NEW c \in Workers
      PROVE  PointHolds(client, mixed, hour + 1, hourlySpending, funds, account, call[c])
  <2>1. PointHolds(client, mixed, hour, hourlySpending, funds, account, call[c])
    BY DEF CallsInv
  <2>2. ASSUME ~mixed, client = "phantom", call[c].pc \in {"look", "send", "confirm"}
        PROVE  hourlySpending[hour + 1] + call[c].amount <= Limit
    <3>1. hourlySpending[hour + 1] = 0
      BY <1>3, <2>2 DEF CallsInv, HourKept
    <3>2. hourlySpending[hour] + call[c].amount <= Limit
      BY <2>1, <2>2 DEF PointHolds
    <3>3. hourlySpending[hour] \in Nat /\ call[c].amount \in Nat /\ Limit \in Nat
      <4>1. call[c] \in CallShape /\ hourlySpending[hour] \in Nat
        BY <1>1 DEF CallTypes
      <4> QED
        BY <4>1, UnitsTypes, CallConstants
    <3> QED
      BY <3>1, <3>2, <3>3
  <2> QED
    BY <2>1, <2>2 DEF PointHolds
<1>7. /\ SumsBalance(client, mixed, Paid(funds), Reported(hourlySpending), lost, call)
      /\ OneAtATime(mixed, call)
  BY DEF CallsInv
<1> QED
  BY <1>2, <1>4, <1>5, <1>6, <1>7 DEF CallsInv

LEMMA CallsKept ==
    ASSUME CallsInv, [Paying!Next]_callsVars
    PROVE  CallsInv'
<1>1. ASSUME NEW c \in Workers, CallStep(c)
      PROVE  CallsInv'
  <2>1. CASE Paying!Ask(c) \/ (client = "cdp" /\ Paying!AskAgain(c))
    BY <2>1, AsksKeep
  <2>2. CASE Paying!NotSent(c)
    BY <2>2, ReturnsKeep DEF Paying!NotSent, Paying!At
  <2>3. CASE client # "mcp" /\ Paying!Answer(c)
    BY <2>3, ReturnsKeep DEF Paying!Answer, Paying!At
  <2>4. CASE client \in {"javascript", "python", "rust"} /\ Paying!Track(c)
    BY <2>4, TrackKeeps
  <2>5. CASE Looks(c)
    BY <2>5, LooksKeep
  <2>6. CASE Paying!Send(c)
    BY <2>6, SendKeeps
  <2>7. CASE client \in {"python", "go"} /\ Paying!Confirm(c)
    BY <2>7, ConfirmKeeps
  <2>8. CASE client \in {"javascript", "rust", "mcp"} /\ call[c].lands /\ Paying!Confirm(c)
    BY <2>8, ConfirmKeeps
  <2>9. CASE Paying!Fail(c, "confirm") \/ (client = "mcp" /\ Paying!Fail(c, "answer"))
    BY <2>9, FailKeeps
  <2>10. CASE client = "go" /\ (Paying!GoReads(c) \/ Paying!GoWrites(c) \/ Paying!GoDies(c))
    BY <2>10, GoReadsKeeps, GoWritesKeeps, GoDiesKeeps
  <2>11. CASE client = "phantom" /\ Paying!CheckLimit(c)
    BY <2>11, CheckLimitKeeps
  <2>12. CASE client \in {"phantom", "cdp"} /\ Paying!TrackConfirmed(c)
    BY <2>12, TrackConfirmedKeeps
  <2>13. CASE client \in {"cdp", "mcp"} /\ Paying!Create(c)
    BY <2>13, CreateKeeps
  <2>14. CASE client = "mcp" /\ Paying!Record(c)
    BY <2>14, RecordKeeps
  <2> QED
    BY <1>1, <2>1, <2>2, <2>3, <2>4, <2>5, <2>6, <2>7, <2>8, <2>9, <2>10, <2>11, <2>12, <2>13, <2>14
       DEF CallStep
<1>2. ASSUME UNCHANGED callsVars
      PROVE  CallsInv'
  BY <1>2 DEF callsVars, CallsInv, CallTypes
<1> QED
  BY <1>1, <1>2, HourKeeps, CallSteps

LEMMA CallsBegin ==
    ASSUME Paying!Init
    PROVE  CallsInv
<1>1. /\ client \in Clients /\ hour = 0
      /\ hourlySpending = [h \in 0..MaxHour |-> 0]
      /\ call = [c \in Workers |-> Paying!Idle]
      /\ funds = [a \in {"SOL", "token"} |-> WalletFunds]
      /\ account \in BOOLEAN /\ lost = 0 /\ asked = 0 /\ mixed = FALSE
  BY DEF Paying!Init, Paying!Assets, Clients
<1>2. CallTypes
  <2>1. 0 \in 0..MaxHour /\ 0 \in 0..MaxCalls /\ WalletFunds \in 0..WalletFunds
    BY CallConstants
  <2> QED
    BY <1>1, <2>1, IdleShape DEF CallTypes
<1>3. \A c \in Workers : call[c].pc = "idle"
  BY <1>1, IdleShape
<1>4. AllToSend(client, call) = 0 /\ AllUnheard(client, call) = 0
  <2> DEFINE f == [c \in Workers |-> ToSend(client, call[c])]
             g == [c \in Workers |-> Unheard(client, call[c])]
  <2>1. \A c \in Workers : f[c] = 0 /\ g[c] = 0
    BY <1>3 DEF ToSend, Unheard
  <2>2. f \in [Workers -> Int] /\ g \in [Workers -> Int]
    BY <2>1
  <2>3. AllToSend(client, call) = SumFunction(f) /\ AllUnheard(client, call) = SumFunction(g)
    BY DEF AllToSend, AllUnheard
  <2> HIDE DEF f, g
  <2>4. IsFiniteSet(Workers)
    BY ServicesAssumption
  <2>5. SumFunction(f) = 0 /\ SumFunction(g) = 0
    BY <2>1, <2>2, <2>4, SumOfZeros
  <2> QED
    BY <2>3, <2>5
<1>5. Paid(funds) = 0 /\ Reported(hourlySpending) = 0
  <2>1. Paid(funds) = 0
    BY <1>1, CallConstants DEF Paid
  <2>2. Total(hourlySpending) = 0
    <3>1. IsFiniteSet(0..MaxHour) /\ hourlySpending \in [0..MaxHour -> Int]
      BY <1>2, CallConstants, FS_Interval DEF CallTypes
    <3>2. \A h \in 0..MaxHour : hourlySpending[h] = 0
      BY <1>1
    <3>3. SumFunction(hourlySpending) = 0
      BY <3>1, <3>2, SumOfZeros
    <3> QED
      BY <3>1, <3>3 DEF Total, SumFunction
  <2> QED
    BY <2>1, <2>2, CallConstants DEF Reported
<1>6. SumsBalance(client, mixed, Paid(funds), Reported(hourlySpending), lost, call)
  BY <1>1, <1>4, <1>5 DEF SumsBalance, Balanced
<1>7. OneAtATime(mixed, call)
  BY <1>3 DEF OneAtATime
<1>8. \A c \in Workers : PointHolds(client, mixed, hour, hourlySpending, funds, account, call[c])
  BY <1>3 DEF PointHolds
<1>9. HourKept(client, mixed, hour, hourlySpending)
  BY <1>1, CallConstants DEF HourKept
<1> QED
  BY <1>2, <1>6, <1>7, <1>8, <1>9 DEF CallsInv

LEMMA SpentIsTotal == Paying!totalSpent = Total(hourlySpending)
<1>1. Paying!totalSpent = (CHOOSE sum : IsSumOf(hourlySpending, 0..MaxHour, sum))[0..MaxHour]
  BY DEF Paying!totalSpent, Paying!MapThenSumSet, Paying!MapThenFoldSet, IsSumOf, Pick
<1> QED
  BY <1>1, SumIsChosen DEF Total

LEMMA CallsKnown ==
    ASSUME CallsInv
    PROVE  Paying!SpendingKnown /\ Paying!PaymentsCanLand
<1>1. CallTypes
  BY DEF CallsInv
<1>2. /\ Paying!paid = Paid(funds)
      /\ Paying!totalSpent * 10 ^ Decimals = Reported(hourlySpending)
  BY SpentIsTotal DEF Paying!paid, Paid, Reported, Whole
<1>3. /\ Paid(funds) \in Int /\ Reported(hourlySpending) \in Int /\ lost \in Int
  BY <1>1, PaidType, TotalType DEF CallTypes
<1>4. AllToSend(client, call) \in Nat
  <2> DEFINE f == [c \in Workers |-> ToSend(client, call[c])]
  <2>1. f \in [Workers -> Nat] /\ AllToSend(client, call) = SumFunction(f)
    <3>1. \A c \in Workers : ToSend(client, call[c]) \in Nat
      BY <1>1, UnitsTypes DEF CallTypes
    <3> QED
      BY <3>1 DEF AllToSend
  <2> HIDE DEF f
  <2>2. IsFiniteSet(Workers) /\ DOMAIN f = Workers /\ \A c \in Workers : f[c] \in Int /\ f[c] >= 0
    BY <2>1, ServicesAssumption
  <2>3. SumFunctionOnSet(f, Workers) \in Int /\ SumFunctionOnSet(f, Workers) >= 0
    BY <2>2, SumType
  <2> QED
    BY <2>1, <2>2, <2>3 DEF SumFunction
<1>5. ASSUME \A c \in Workers : Paying!At(c, "idle")
      PROVE  AllUnheard(client, call) = 0
  <2> DEFINE g == [c \in Workers |-> Unheard(client, call[c])]
  <2>1. \A c \in Workers : g[c] = 0
    BY <1>5 DEF Unheard, Paying!At
  <2>2. AllUnheard(client, call) = SumFunction(g) /\ g \in [Workers -> Int]
    BY <2>1 DEF AllUnheard
  <2> HIDE DEF g
  <2>3. SumFunction(g) = 0
    BY <2>1, <2>2, ServicesAssumption, SumOfZeros
  <2> QED
    BY <2>2, <2>3
<1>6. AllUnheard(client, call) \in Nat
  <2> DEFINE f == [c \in Workers |-> Unheard(client, call[c])]
  <2>1. f \in [Workers -> Nat] /\ AllUnheard(client, call) = SumFunction(f)
    <3>1. \A c \in Workers : Unheard(client, call[c]) \in Nat
      BY <1>1, UnitsTypes DEF CallTypes
    <3> QED
      BY <3>1 DEF AllUnheard
  <2> HIDE DEF f
  <2>2. IsFiniteSet(Workers) /\ DOMAIN f = Workers /\ \A c \in Workers : f[c] \in Int /\ f[c] >= 0
    BY <2>1, ServicesAssumption
  <2>3. SumFunctionOnSet(f, Workers) \in Int /\ SumFunctionOnSet(f, Workers) >= 0
    BY <2>2, SumType
  <2> QED
    BY <2>1, <2>2, <2>3 DEF SumFunction
<1>7. ASSUME NEW p \in Int, NEW r \in Int, NEW l \in Nat, NEW s \in Nat, NEW u \in Nat,
             Balanced(CountsFirst(client, mixed), CountsLater(client), client = "mcp",
                      p, r, l, s, u)
      PROVE  /\ client \in {"javascript", "python", "rust"} => p <= r
             /\ client = "go" /\ ~mixed => p <= r
             /\ client \in {"phantom", "cdp", "mcp"} /\ u = 0 => p <= r + l
             /\ client = "mcp" => r <= p
  <2>1. /\ CountsFirst(client, mixed) => p <= r
        /\ CountsLater(client) /\ u = 0 => p <= r + l
        /\ client = "mcp" => r <= p
    BY <1>7 DEF Balanced
  <2> QED
    BY <2>1 DEF CountsFirst, CountsLater
<1>8. /\ client \in {"javascript", "python", "rust"} => Paid(funds) <= Reported(hourlySpending)
      /\ client = "go" /\ ~mixed => Paid(funds) <= Reported(hourlySpending)
      /\ client \in {"phantom", "cdp", "mcp"} /\ AllUnheard(client, call) = 0 =>
            Paid(funds) <= Reported(hourlySpending) + lost
      /\ client = "mcp" => Reported(hourlySpending) <= Paid(funds)
  <2>1. lost \in Nat
    BY <1>1 DEF CallTypes
  <2>2. Balanced(CountsFirst(client, mixed), CountsLater(client), client = "mcp",
                 Paid(funds), Reported(hourlySpending), lost,
                 AllToSend(client, call), AllUnheard(client, call))
    BY DEF CallsInv, SumsBalance
  <2> QED
    BY <1>3, <1>4, <1>6, <1>7, <2>1, <2>2
<1>9. client = "phantom" /\ ~mixed => \A h \in 0..MaxHour : hourlySpending[h] <= Limit
  BY DEF CallsInv, HourKept
<1>10. Paying!SpendingKnown
  BY <1>2, <1>5, <1>8, <1>9 DEF Paying!SpendingKnown
<1>11. Paying!PaymentsCanLand
  <2>1. ASSUME NEW c \in Workers, Paying!At(c, "send")
        PROVE  /\ (/\ ~mixed
                   /\ \/ client \in {"python", "phantom"}
                      \/ client \in {"rust", "go"} /\ Paying!PaysIn(c) = "SOL")
                     => Paying!CanLand(c)
               /\ client # "rust" /\ Paying!PaysIn(c) = "token" => account \/ call[c].creates
    <3>1. PointHolds(client, mixed, hour, hourlySpending, funds, account, call[c])
      BY DEF CallsInv
    <3>2. call[c].pc = "send"
      BY <2>1 DEF Paying!At
    <3>3. /\ Paying!PaysIn(c) = PaysWith(client, call[c])
          /\ Paying!Units(c) = UnitsOf(client, call[c])
      BY UnitsAre
    <3>4. Paying!CanLand(c) <=> CanLandWith(client, call[c], funds, account)
      BY <3>3 DEF Paying!CanLand, CanLandWith
    <3> QED
      BY <3>1, <3>2, <3>3, <3>4 DEF PointHolds
  <2> QED
    BY <2>1 DEF Paying!PaymentsCanLand
<1> QED
  BY <1>10, <1>11

-----------------------------------------------------------------------------
\* What the clients that pay know of their spending.

\* SpendingKnown: a client that counts before it pays never reports less than it has paid
\* (client.ts and client.rs, client.py, and client.go if no calls overlap), one that counts
\* afterwards lacks only what failed calls have paid, and the bridge never reports too much;
\* one call at a time, no hour of the Phantom client passes its limit and what was looked at
\* before a payment still holds when it is sent; and the transfers of a CDP wallet in any
\* window's time are within twice the limit, if it makes one at a time (policy-engine.ts).
THEOREM SpendingIsKnown == ServicesSpec => []SpendingKnown
<1> DEFINE I == CallsInv /\ PolicyInv
<1>1. ServicesInit => I
  BY CallsBegin, PolicyBegins DEF ServicesInit
<1>2. ASSUME I, [ServicesNext]_servicesVars
      PROVE  I'
  <2>1. [Paying!Next]_callsVars
    BY <1>2 DEF ServicesNext, servicesVars
  <2>2. [Policy!Next]_policyVars
    BY <1>2 DEF ServicesNext, servicesVars
  <2>3. CallsInv'
    BY <1>2, <2>1, CallsKept
  <2>4. PolicyInv'
    BY <1>2, <2>2, PolicyKept
  <2> QED
    BY <2>3, <2>4
<1>3. I => SpendingKnown
  BY CallsKnown, PolicyLimits DEF SpendingKnown
<1> QED
  BY <1>1, <1>2, <1>3, PTL DEF ServicesSpec
=============================================================================
