----------------------------- MODULE ServiceDeals -----------------------------
(***************************************************************************)
(* Offers and contracts between chat agents (plugins/eliza-plugin): a      *)
(* buyer makes an offer, the seller turns it into a contract, the buyer    *)
(* pays the contract's price into an escrow. The registry at the other end *)
(* keeps what it is sent; each action of an agent is a chain of requests   *)
(* to it, in one of many conversations.                                    *)
(***************************************************************************)
EXTENDS Integers, FiniteSets, Functions

CONSTANTS
    Handlers,       \* actions that agents are asked for
    Offers,         \* ids, in the order 1, 2, ... in which they are made
    MaxContracts,   \* bound
    MaxFaults       \* bound: requests that throw

DealsAssumption == Offers \subseteq Nat /\ MaxContracts \in Nat /\ MaxFaults \in Nat

VARIABLES
    offer,          \* status of each
    contract,       \* each with its offer and status
    autoAccept,     \* X402_AUTO_ACCEPT_OFFERS
    handler,
    transferred,    \* history: transfers for each contract
    again,          \* history: offers accepted by their id when they were no longer pending
    met,            \* history: has an action begun before another was over?
    dealFaults

dealVars == <<offer, contract, autoAccept, handler, transferred, again, met, dealFaults>>

None == 0
ContractIds == 1..MaxContracts
Idle == [pc |-> "idle", offer |-> None, contract |-> None]

TypeOK ==
    /\ offer \in [Offers -> {"none", "pending", "accepted"}]
    /\ contract \in [ContractIds -> [offer : Offers \cup {None}, status : {"none", "created", "funded"}]]
    /\ autoAccept \in BOOLEAN
    /\ handler \in [Handlers -> [pc : {"idle", "buyer", "post", "patch", "transfer", "fund", "over"},
                                 offer : Offers \cup {None}, contract : ContractIds \cup {None}]]
    /\ transferred \in [ContractIds -> Nat]
    /\ again \in [Offers -> Nat]
    /\ met \in BOOLEAN
    /\ dealFaults \in 0..MaxFaults

Init ==
    /\ offer = [o \in Offers |-> "none"]
    /\ contract = [k \in ContractIds |-> [offer |-> None, status |-> "none"]]
    /\ autoAccept \in BOOLEAN
    /\ handler = [h \in Handlers |-> Idle]
    /\ transferred = [k \in ContractIds |-> 0]
    /\ again = [o \in Offers |-> 0]
    /\ met = FALSE
    /\ dealFaults = 0

At(h, pc) == handler[h].pc = pc
Goto(h, pc) == handler' = [handler EXCEPT ![h].pc = pc]
Pending == {o \in Offers : offer[o] = "pending"}
Free == {k \in ContractIds : contract[k].status = "none"}
First(S) == CHOOSE x \in S : \A y \in S : x <= y

Began(h) ==
    /\ At(h, "idle")
    /\ met' = (met \/ \E g \in Handlers \ {h} : handler[g].pc \notin {"idle", "over"})

-----------------------------------------------------------------------------
\* make-offer.ts: the service is looked up and the offer created.
MakeOffer(h) ==
    /\ Began(h)
    /\ \E o \in Offers :
          /\ offer[o] = "none" /\ \A p \in Offers : p < o => offer[p] # "none"
          /\ offer' = [offer EXCEPT ![o] = "pending"]
    /\ Goto(h, "over")
    /\ UNCHANGED <<contract, autoAccept, transferred, again, dealFaults>>

\* accept-offer.ts without an id: the seller's pending offers are listed; the first one is
\* accepted if that is automatic.
AcceptFirst(h) ==
    /\ Began(h)
    /\ handler' = IF Pending = {} \/ ~autoAccept THEN [handler EXCEPT ![h].pc = "over"]
                  ELSE [handler EXCEPT ![h].pc = "buyer", ![h].offer = First(Pending)]
    /\ UNCHANGED <<offer, contract, autoAccept, transferred, again, dealFaults>>

\* The buyer's reputation is enough, or not.
BuyerChecked(h) ==
    /\ At(h, "buyer")
    /\ \E pc \in {"post", "over"} : Goto(h, pc)
    /\ UNCHANGED <<offer, contract, autoAccept, transferred, again, met, dealFaults>>

\* accept-offer.ts with an id: the offer is there, whatever its status.
AcceptById(h) ==
    /\ Began(h)
    /\ \E o \in Offers :
          /\ offer[o] # "none"
          /\ handler' = [handler EXCEPT ![h].pc = "post", ![h].offer = o]
          /\ again' = [again EXCEPT ![o] = IF offer[o] = "pending" THEN @ ELSE @ + 1]
    /\ UNCHANGED <<offer, contract, autoAccept, transferred, dealFaults>>

\* contracts/create, then the offer's status
Post(h) ==
    /\ At(h, "post") /\ Free # {}
    /\ LET k == First(Free)
       IN  contract' = [contract EXCEPT ![k] = [offer |-> handler[h].offer, status |-> "created"]]
    /\ Goto(h, "patch")
    /\ UNCHANGED <<offer, autoAccept, transferred, again, met, dealFaults>>

Patch(h) ==
    /\ At(h, "patch")
    /\ offer' = [offer EXCEPT ![handler[h].offer] = "accepted"]
    /\ Goto(h, "over")
    /\ UNCHANGED <<contract, autoAccept, transferred, again, met, dealFaults>>

-----------------------------------------------------------------------------
\* execute-contract.ts: the contract is read and must be "created"; the escrow's address.
ExecuteAny(h) ==
    /\ Began(h)
    /\ \E k \in ContractIds :
          /\ contract[k].status # "none"
          /\ handler' = [handler EXCEPT ![h].pc = "transfer", ![h].contract = k]
    /\ UNCHANGED <<offer, contract, autoAccept, transferred, again, dealFaults>>

Execute(h) ==
    /\ Began(h)
    /\ \E k \in ContractIds :
          /\ contract[k].status # "none"
          /\ handler' = IF contract[k].status = "created"
                        THEN [handler EXCEPT ![h].pc = "transfer", ![h].contract = k]
                        ELSE [handler EXCEPT ![h].pc = "over"]
    /\ UNCHANGED <<offer, contract, autoAccept, transferred, again, dealFaults>>

\* sendAndConfirmTransaction
Transfer(h) ==
    /\ At(h, "transfer")
    /\ transferred' = [transferred EXCEPT ![handler[h].contract] = @ + 1]
    /\ Goto(h, "fund")
    /\ UNCHANGED <<offer, contract, autoAccept, again, met, dealFaults>>

Fund(h) ==
    /\ At(h, "fund")
    /\ contract' = [contract EXCEPT ![handler[h].contract].status = "funded"]
    /\ Goto(h, "over")
    /\ UNCHANGED <<offer, autoAccept, transferred, again, met, dealFaults>>

\* A request throws and the agent says that it has failed. The transfer may have been made.
Fails(h) ==
    /\ handler[h].pc \in {"buyer", "post", "patch", "transfer", "fund"}
    /\ dealFaults < MaxFaults /\ dealFaults' = dealFaults + 1
    /\ Goto(h, "over")
    /\ \/ UNCHANGED transferred
       \/ /\ At(h, "transfer")
          /\ transferred' = [transferred EXCEPT ![handler[h].contract] = @ + 1]
    /\ UNCHANGED <<offer, contract, autoAccept, again, met>>

Next ==
    \E h \in Handlers :
       \/ MakeOffer(h) \/ AcceptFirst(h) \/ BuyerChecked(h) \/ AcceptById(h) \/ Post(h) \/ Patch(h)
       \/ Execute(h) \/ Transfer(h) \/ Fund(h) \/ Fails(h)

Spec == Init /\ [][Next]_dealVars
-----------------------------------------------------------------------------
ContractsOf(o) == {k \in ContractIds : contract[k].offer = o}

\* accept-offer.ts, execute-contract.ts: a funded contract was paid for, and an accepted offer
\* has a contract, whatever fails and overlaps. Actions that do not overlap make one contract of
\* an offer, but for another with each failure and with each acceptance by its id of one that is
\* no longer pending; and pay for a contract once, but for another time with each failure.
DealsSound ==
    /\ \A k \in ContractIds : contract[k].status = "funded" => transferred[k] > 0
    /\ \A o \in Offers : offer[o] = "accepted" => ContractsOf(o) # {}
    /\ met \/
          /\ \A o \in Offers : Cardinality(ContractsOf(o)) <= 1 + again[o] + dealFaults
          /\ \A k \in ContractIds : transferred[k] <= 1 + dealFaults
=============================================================================
