------------------------------ MODULE MultiSig ------------------------------
(***************************************************************************)
(* A multi-signature wallet of the registry API, services/multisig.ts.     *)
(*                                                                         *)
(* Every operation reads a row, awaits something, and writes from what it  *)
(* has read; a handler is then free for the next request.  One action is   *)
(* what a handler does between two awaits.  Signatures are told apart as   *)
(* strings, as the code does: whose they are does not count.               *)
(***************************************************************************)
EXTENDS Integers, FiniteSets

CONSTANTS
    Handlers,       \* requests at one time
    Transactions,
    Signatures,
    Keys,           \* wallets of agents that may become signers
    FirstSigners, FirstThreshold,   \* createWallet's input
    MaxCount,       \* bound: how far pendingTransactions is followed
    MaxFaults,      \* bound: exceptions of the database
    NoTransaction, NoSignature

\* what createWallet asks for
WalletAssumption ==
    /\ FirstSigners \subseteq Keys /\ IsFiniteSet(Keys) /\ Cardinality(FirstSigners) >= 2
    /\ FirstThreshold \in 1..Cardinality(FirstSigners)
    /\ MaxCount \in Nat /\ MaxFaults \in Nat
    /\ IsFiniteSet(Transactions) /\ IsFiniteSet(Signatures)

VARIABLES
    wallet,     \* the MultiSigWallet row
    row,        \* the MultiSigTransaction rows
    request,    \* what each handler is doing, with the rows it has read
    verified,   \* history: the signatures that were found valid for a transaction
    sent,       \* transactions that were sent to the cluster
    overlapped, \* history: has a request begun before another was over?
    dbFaults

multiSigVars == <<wallet, row, request, verified, sent, overlapped, dbFaults>>

Status == {"NONE", "PENDING", "PARTIALLY_SIGNED", "READY", "EXECUTED", "CANCELLED"}
Row == [status: Status, signatures: SUBSET Signatures, required: Nat]
Wallet == [signers: SUBSET Keys, threshold: Nat, pending: Int, total: Nat]
PC == {"idle", "create", "countNew", "sign", "execute", "send", "confirm", "finish", "countDone",
       "cancel", "uncount", "addSigner", "removeSigner", "updateThreshold"}
NoRow == [status |-> "NONE", signatures |-> {}, required |-> 0]
FirstWallet == [signers |-> FirstSigners, threshold |-> FirstThreshold, pending |-> 0, total |-> 0]
NoRequest == [pc |-> "idle", of |-> NoTransaction, signature |-> NoSignature, row |-> NoRow,
              wallet |-> FirstWallet]

TypeOK ==
    /\ wallet \in Wallet
    /\ row \in [Transactions -> Row]
    /\ request \in [Handlers -> [pc: PC, of: Transactions \cup {NoTransaction},
                                 signature: Signatures \cup {NoSignature}, row: Row,
                                 wallet: Wallet]]
    /\ verified \in [Transactions -> SUBSET Signatures]
    /\ sent \subseteq Transactions
    /\ overlapped \in BOOLEAN
    /\ dbFaults \in 0..MaxFaults

Init ==
    /\ wallet = FirstWallet
    /\ row = [t \in Transactions |-> NoRow]
    /\ request = [h \in Handlers |-> NoRequest]
    /\ verified = [t \in Transactions |-> {}]
    /\ sent = {}
    /\ overlapped = FALSE
    /\ dbFaults = 0

At(h, pc) == request[h].pc = pc
Of(h) == request[h].of
Goto(h, pc) == request' = [request EXCEPT ![h].pc = pc]
Step(h, pc, t) == request' = [request EXCEPT ![h] = [NoRequest EXCEPT !.pc = pc, !.of = t]]
Finish(h) == request' = [request EXCEPT ![h] = NoRequest]

\* A request and the first thing it awaits
Begin(h, r) ==
    /\ At(h, "idle")
    /\ request' = [request EXCEPT ![h] = r]
    /\ overlapped' = (overlapped \/ \E i \in Handlers \ {h} : ~At(i, "idle"))
    /\ UNCHANGED <<wallet, row, verified, sent, dbFaults>>

\* Of the wallet's row nothing but its signers and its threshold is used.
ReadWallet(h, pc) ==
    Begin(h, [NoRequest EXCEPT !.pc = pc,
                               !.wallet = [signers |-> wallet.signers, pending |-> 0,
                                           threshold |-> wallet.threshold, total |-> 0]])

Write(t, status) ==
    /\ row' = [row EXCEPT ![t].status = status]
    /\ UNCHANGED <<wallet, verified, sent, overlapped, dbFaults>>

\* increment and decrement are the database's.
Count(pending, total) ==
    /\ wallet' = [wallet EXCEPT !.pending = @ + pending, !.total = @ + total]
    /\ -MaxCount <= wallet'.pending /\ wallet'.pending <= MaxCount
    /\ UNCHANGED <<row, verified, sent, overlapped, dbFaults>>

-----------------------------------------------------------------------------
\* createTransaction

BeginCreate(h) == ReadWallet(h, "create")

Create(h) ==
    /\ At(h, "create")
    /\ \E t \in Transactions :
          /\ row[t].status = "NONE"
          /\ row' = [row EXCEPT ![t] = [status |-> "PENDING", signatures |-> {},
                                        required |-> request[h].wallet.threshold]]
    /\ Step(h, "countNew", NoTransaction)
    /\ UNCHANGED <<wallet, verified, sent, overlapped, dbFaults>>

CountNew(h) == At(h, "countNew") /\ Count(1, 0) /\ Finish(h)

-----------------------------------------------------------------------------
\* signTransaction and executeTransaction

BeginSign(h, t, g) ==
    /\ row[t].status \in {"PENDING", "PARTIALLY_SIGNED"}
    /\ g \notin row[t].signatures
    /\ Begin(h, [NoRequest EXCEPT !.pc = "sign", !.of = t, !.signature = g, !.row = row[t]])

SignOverAll(h) ==
    LET t == Of(h)
        signatures == request[h].row.signatures \cup {request[h].signature}
        ready == Cardinality(signatures) + 1 >= request[h].row.required
    IN  /\ At(h, "sign")
        /\ row' = [row EXCEPT ![t] = [status |-> IF ready THEN "READY" ELSE "PARTIALLY_SIGNED",
                                      signatures |-> signatures, required |-> @.required]]
        /\ verified' = [verified EXCEPT ![t] = @ \cup {request[h].signature}]
        /\ IF ready THEN Step(h, "execute", t) ELSE Finish(h)
        /\ UNCHANGED <<wallet, sent, overlapped, dbFaults>>

\* The signatures that were read and this one replace whatever the row holds now.
Sign(h) ==
    LET t == Of(h)
        signatures == request[h].row.signatures \cup {request[h].signature}
        ready == Cardinality(signatures) >= request[h].row.required
    IN  /\ At(h, "sign")
        /\ row' = [row EXCEPT ![t] = [status |-> IF ready THEN "READY" ELSE "PARTIALLY_SIGNED",
                                      signatures |-> signatures, required |-> @.required]]
        /\ verified' = [verified EXCEPT ![t] = @ \cup {request[h].signature}]
        /\ IF ready THEN Step(h, "execute", t) ELSE Finish(h)
        /\ UNCHANGED <<wallet, sent, overlapped, dbFaults>>

\* executeTransaction reads the row again.
Execute(h) ==
    /\ At(h, "execute")
    /\ IF row[Of(h)].status = "READY" THEN Goto(h, "send") ELSE Finish(h)
    /\ UNCHANGED <<wallet, row, verified, sent, overlapped, dbFaults>>

\* sendRawTransaction, which may throw
Send(h) ==
    /\ At(h, "send")
    /\ \/ Goto(h, "confirm") /\ sent' = sent \cup {Of(h)}
       \/ Goto(h, "cancel") /\ UNCHANGED sent
    /\ UNCHANGED <<wallet, row, verified, overlapped, dbFaults>>

\* confirmTransaction, which throws when the blockhash expires
Confirm(h) ==
    /\ At(h, "confirm")
    /\ \E pc \in {"finish", "cancel"} : Goto(h, pc)
    /\ UNCHANGED <<wallet, row, verified, sent, overlapped, dbFaults>>

SetExecuted(h) == At(h, "finish") /\ Write(Of(h), "EXECUTED") /\ Goto(h, "countDone")
CountDone(h) == At(h, "countDone") /\ Count(-1, 1) /\ Finish(h)

-----------------------------------------------------------------------------
\* cancelTransaction, and the catch block of executeTransaction

BeginCancel(h, t) ==
    /\ row[t].status \notin {"NONE", "EXECUTED", "CANCELLED"}
    /\ Begin(h, [NoRequest EXCEPT !.pc = "cancel", !.of = t])

SetCancelled(h) == At(h, "cancel") /\ Write(Of(h), "CANCELLED") /\ Goto(h, "uncount")
Uncount(h) == At(h, "uncount") /\ Count(-1, 0) /\ Finish(h)

-----------------------------------------------------------------------------
\* addSigner, removeSigner, updateThreshold: one field of the row each

BeginChange(h) == \E pc \in {"addSigner", "removeSigner", "updateThreshold"} : ReadWallet(h, pc)

Change(h) ==
    LET read == request[h].wallet
    IN  /\ \/ /\ At(h, "addSigner")
              /\ \E k \in Keys \ read.signers :
                    wallet' = [wallet EXCEPT !.signers = read.signers \cup {k}]
           \/ /\ At(h, "removeSigner")
              /\ Cardinality(read.signers) > 2
              /\ read.threshold < Cardinality(read.signers)
              /\ \E k \in read.signers :
                    wallet' = [wallet EXCEPT !.signers = read.signers \ {k}]
           \/ /\ At(h, "updateThreshold")
              /\ \E n \in 1..Cardinality(read.signers) :
                    wallet' = [wallet EXCEPT !.threshold = n]
        /\ Finish(h)
        /\ UNCHANGED <<row, verified, sent, overlapped, dbFaults>>

\* An agent or a recipient is not found, a signature is not valid, a signer may not be
\* added or removed.
Refuse(h) ==
    /\ request[h].pc \in {"create", "sign", "addSigner", "removeSigner"}
    /\ Finish(h)
    /\ UNCHANGED <<wallet, row, verified, sent, overlapped, dbFaults>>

\* The database throws: executeTransaction catches it, but for what its catch block does.
Throw(h) ==
    /\ ~At(h, "idle")
    /\ dbFaults < MaxFaults
    /\ dbFaults' = dbFaults + 1
    /\ IF request[h].pc \in {"finish", "countDone"} THEN Goto(h, "cancel") ELSE Finish(h)
    /\ UNCHANGED <<wallet, row, verified, sent, overlapped>>

Next == \E h \in Handlers :
    \/ BeginCreate(h) \/ Create(h) \/ CountNew(h)
    \/ \E t \in Transactions :
          BeginCancel(h, t) \/ \E g \in Signatures : BeginSign(h, t, g)
    \/ Sign(h) \/ Execute(h) \/ Send(h) \/ Confirm(h) \/ SetExecuted(h) \/ CountDone(h)
    \/ SetCancelled(h) \/ Uncount(h) \/ BeginChange(h) \/ Change(h) \/ Refuse(h) \/ Throw(h)

Spec == Init /\ [][Next]_multiSigVars
-----------------------------------------------------------------------------
\* Whatever overlaps, and whichever signatures are lost in it: only a transaction with
\* as many different valid signatures as it required when it was created is sent.
SentWasSigned ==
    \A t \in Transactions :
        (row[t].status \in {"READY", "EXECUTED"} \/ t \in sent) =>
            Cardinality(verified[t]) >= row[t].required

Open == {t \in Transactions : row[t].status \notin {"NONE", "EXECUTED", "CANCELLED"}}

\* When no requests have overlapped and the database has not failed, the wallet counts
\* its open and its executed transactions, and can be signed for by its signers.
WalletExact ==
    overlapped \/ dbFaults > 0 \/
        /\ Cardinality(wallet.signers) >= 2
        /\ wallet.threshold \in 1..Cardinality(wallet.signers)
        /\ (\A h \in Handlers : At(h, "idle")) =>
              /\ wallet.pending = Cardinality(Open)
              /\ wallet.total = Cardinality({t \in Transactions : row[t].status = "EXECUTED"})

\* multisig.ts: what is sent was signed, and the wallet's row says what became of it.
WalletSound == SentWasSigned /\ WalletExact
=============================================================================
