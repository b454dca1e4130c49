----------------------------- MODULE ZKCredentials -----------------------------
(***************************************************************************)
(* The credentials of one schema that the registry's API issues, proves    *)
(* and verifies, services/zk-credentials.ts: the rows in the database, the *)
(* list of their commitments in Redis or in memory, and the Merkle root of *)
(* that list. A commitment is drawn from 32 random bytes, so that no two   *)
(* credentials have the same; a hash is the tuple of what is hashed.       *)
(***************************************************************************)
EXTENDS Integers, Sequences, FiniteSets

CONSTANTS
    Credentials,    \* bound: credentials that are ever issued
    MaxProofs,      \* bound: proofs
    MaxLeaves,      \* bound: how long lists are for which the roots are compared
    MaxFaults       \* bound: restarts and exceptions of the stores

VARIABLES
    vault,      \* where the leaves are
    credential, \* the rows, and what their issue has come to
    leaves,     \* the commitments in order
    reading,    \* generateProof between the row and the leaves
    proofs,     \* the proofs that were generated, with their root; the leaves are history
    verified,   \* history: the proofs that were accepted, with the leaves of that moment
    credentialFaults

credentialVars == <<vault, credential, leaves, reading, proofs, verified, credentialFaults>>

Rows == {"issuing", "issued", "revoked", "expired"}

TypeOK ==
    /\ vault \in {"redis", "memory"}
    /\ credential \in [Credentials -> {"none", "asked", "found", "refused"} \cup Rows]
    /\ leaves \in Seq(Credentials)
    /\ reading \subseteq Credentials
    /\ \A p \in proofs : p.of \in Credentials /\ p.leaves \in Seq(Credentials)
    /\ \A v \in verified : v.proof \in proofs /\ v.now \in Seq(Credentials)
    /\ credentialFaults \in 0..MaxFaults

Init ==
    /\ vault \in {"redis", "memory"}
    /\ credential = [c \in Credentials |-> "none"]
    /\ leaves = <<>>
    /\ reading = {} /\ proofs = {} /\ verified = {}
    /\ credentialFaults = 0

Becomes(c, from, to) ==
    /\ credential[c] = from
    /\ credential' = [credential EXCEPT ![c] = to]

-----------------------------------------------------------------------------
\* nextLevel: pairs, the last node with itself when it is left over
NextLevel(level) ==
    [i \in 1..((Len(level) + 1) \div 2) |->
        <<level[2 * i - 1], IF 2 * i <= Len(level) THEN level[2 * i] ELSE level[2 * i - 1]>>]

\* The levels from one that is not empty to its root, and above
Level(leaves0) ==
    LET level[n \in 0..Len(leaves0)] == IF n = 0 THEN leaves0 ELSE NextLevel(level[n - 1])
    IN  level
Height(level) == CHOOSE n \in 0..Len(level[0]) :
    Len(level[n]) = 1 /\ \A m \in 0..(n - 1) : Len(level[m]) > 1

\* computeMerkleRoot, of a level that is not empty
Root(level) == Level(level)[Height(Level(level))][1]

\* Where the nodes above the i-th are, k levels up
Way(i, k) ==
    LET way[n \in 0..k] == IF n = 0 THEN i ELSE (way[n - 1] + 1) \div 2
    IN  way
IsLeft(i) == i % 2 = 1

\* generateMerkleProof: the siblings on the way to the root from the i-th of a level
Siblings(level, i) ==
    LET up == Level(level)
        way == Way(i, Height(up))
    IN  [n \in 1..Height(up) |->
            LET pair == up[n][way[n]]
            IN  IF IsLeft(way[n - 1]) THEN pair[2] ELSE pair[1]]

\* How the siblings of the i-th leaf lead to a root
Climb(node, i, siblings) ==
    LET way == Way(i, Len(siblings))
        climb[n \in 0..Len(siblings)] ==
            IF n = 0 THEN node
            ELSE IF IsLeft(way[n - 1]) THEN <<climb[n - 1], siblings[n]>>
            ELSE <<siblings[n], climb[n - 1]>>
    IN  climb[Len(siblings)]

\* createCommitment: the hash of a claim and a secret that no other has. It is the hash of
\* no two nodes.
Commitment(c) == <<"claim", "secret", c>>
Commitments(list) == [i \in 1..Len(list) |-> Commitment(list[i])]

-----------------------------------------------------------------------------
\* What a credential says is checked with the row of the agent, or of the transaction.
Check(c) ==
    /\ Becomes(c, "none", "asked") \/ Becomes(c, "none", "refused")
    /\ UNCHANGED <<vault, leaves, reading, proofs, verified, credentialFaults>>

\* issueCredential finds the agent, draws the secret and hashes.
FindAgent(c) ==
    /\ Becomes(c, "asked", "found")
    /\ UNCHANGED <<vault, leaves, reading, proofs, verified, credentialFaults>>

CreateRow(c) ==
    /\ Becomes(c, "found", "issuing")
    /\ UNCHANGED <<vault, leaves, reading, proofs, verified, credentialFaults>>

\* addToMerkleTree, and the id of the credential is returned
AddLeaf(c) ==
    /\ Becomes(c, "issuing", "issued")
    /\ leaves' = Append(leaves, c)
    /\ UNCHANGED <<vault, reading, proofs, verified, credentialFaults>>

Revoke(c) ==
    /\ Becomes(c, "issued", "revoked")
    /\ UNCHANGED <<vault, leaves, reading, proofs, verified, credentialFaults>>

Expire(c) ==
    /\ Becomes(c, "issued", "expired")
    /\ UNCHANGED <<vault, leaves, reading, proofs, verified, credentialFaults>>

\* generateProof: the row is there, neither revoked nor expired.
ReadRow(c) ==
    /\ credential[c] = "issued"
    /\ reading' = reading \cup {c}
    /\ UNCHANGED <<vault, credential, leaves, proofs, verified, credentialFaults>>

\* The leaves are got: the credential's is among them, or the call throws.
Prove(c) ==
    /\ c \in reading
    /\ reading' = reading \ {c}
    /\ \/ /\ \E i \in 1..Len(leaves) : leaves[i] = c
          /\ Cardinality(proofs) < MaxProofs
          /\ proofs' = proofs \cup {[of |-> c, leaves |-> leaves]}
       \/ (\A i \in 1..Len(leaves) : leaves[i] # c) /\ UNCHANGED proofs
    /\ UNCHANGED <<vault, credential, leaves, verified, credentialFaults>>

VerifyAnyRoot(p) ==
    /\ leaves # <<>>
    /\ verified' = verified \cup {[proof |-> p, now |-> leaves]}
    /\ UNCHANGED <<vault, credential, leaves, reading, proofs, credentialFaults>>

\* verifyProof: there is a row with the nullifier, whatever it says, and the root is the
\* one of the leaves as they are.
Verify(p) ==
    /\ leaves # <<>>
    /\ Root(Commitments(p.leaves)) = Root(Commitments(leaves))
    /\ verified' = verified \cup {[proof |-> p, now |-> leaves]}
    /\ UNCHANGED <<vault, credential, leaves, reading, proofs, credentialFaults>>

CredentialFault == credentialFaults < MaxFaults /\ credentialFaults' = credentialFaults + 1

\* A store throws or the process ends, between the row and the leaf.
Throw(c) ==
    /\ CredentialFault
    /\ Becomes(c, "issuing", "issued")
    /\ UNCHANGED <<vault, leaves, reading, proofs, verified>>

\* Leaves in memory are gone; those who were issuing are too.
Restart ==
    /\ CredentialFault
    /\ leaves' = IF vault = "memory" THEN <<>> ELSE leaves
    /\ credential' = [c \in Credentials |->
                        CASE credential[c] \in {"asked", "found"} -> "refused"
                          [] credential[c] = "issuing" -> "issued"
                          [] OTHER -> credential[c]]
    /\ reading' = {}
    /\ UNCHANGED <<vault, proofs, verified>>

Next ==
    \/ \E c \in Credentials :
          \/ Check(c) \/ FindAgent(c) \/ CreateRow(c) \/ AddLeaf(c) \/ Revoke(c) \/ Expire(c)
          \/ ReadRow(c) \/ Prove(c) \/ Throw(c)
    \/ \E p \in proofs : Verify(p)
    \/ Restart

Spec == Init /\ [][Next]_credentialVars
-----------------------------------------------------------------------------
Leaves(n) == Commitments([i \in 1..n |-> i])
RootsSound ==
    \A n \in 1..MaxLeaves :
        /\ \A i \in 1..n : Climb(Leaves(n)[i], i, Siblings(Leaves(n), i)) = Root(Leaves(n))
        /\ \A m \in 1..(n - 1) : Root(Leaves(m)) # Root(Leaves(n))

InList(c, list) == \E i \in 1..Len(list) : list[i] = c

\* A leaf is in the list once. A proof that was generated is one of its list, and without an
\* exception or a restart, whoever has been issued a credential can prove it.
CredentialsProvable ==
    /\ \A i, j \in 1..Len(leaves) : leaves[i] = leaves[j] => i = j
    /\ \A p \in proofs : InList(p.of, p.leaves)
    /\ LET missing == {c \in Credentials : /\ credential[c] \in Rows \ {"issuing"}
                                           /\ ~InList(c, leaves)}
       IN  credentialFaults = 0 => missing = {}

\* A proof is accepted as long as no other credential has been issued, and never again:
\* the root tells all lists apart that the leaves have been. In lists of any length the
\* siblings that are computed for a leaf lead to the root, and no list has the root of a
\* longer one.
RootsTell ==
    /\ \A v \in verified : v.proof.leaves = v.now /\ InList(v.proof.of, v.now)
    /\ (\A c \in Credentials : credential[c] = "none") => RootsSound
=============================================================================
