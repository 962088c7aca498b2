---------------------------- MODULE ClearDeleted ----------------------------
(***************************************************************************)
(* The archive-clear-deleted command.  A block diff names a destroyed      *)
(* contract but not its storage, so an archive built from diffs alone goes *)
(* on returning the old slots.  The scan plans a zero version for every    *)
(* slot that was non-zero when its contract was destroyed; apply, run      *)
(* later and perhaps more than once, writes the plan.                      *)
(*                                                                         *)
(* One contract address is modelled: accounts are scanned independently.   *)
(* A version is absent (NoVersion), an account version is NoAccount when the    *)
(* account is deleted.  The chain grows while the plan lies on disk.       *)
(***************************************************************************)
EXTENDS Integers, FiniteSets

CONSTANTS
    Slots, Values,  \* of the contract; Values are the non-zero ones
    Codes, Nonces,  \* of its incarnations
    LastBlock,      \* bound on the chain
    Before,         \* no contract is destroyed from this block on
    NoVersion, NoAccount

ASSUME ClearAssumption ==
    /\ LastBlock \in Nat /\ Before \in Nat /\ Nonces \subseteq Nat
    /\ 0 \notin Values /\ NoVersion \notin Values \cup {0}
    /\ NoVersion # NoAccount
    /\ {NoVersion, NoAccount} \cap [code : Codes, nonce : Nonces] = {}

VARIABLES
    upgradable, \* whether the address is a system contract's
    archiveHead, \* of the archive
    account,    \* account versions
    storage,    \* storage versions of each slot
    truth,      \* what each slot holds after each block
    hidden,     \* a recreation that left code and nonce as they were
    step,       \* of the command
    scanned,    \* head the scan saw
    plan,       \* slots to zero, each at its block
    chunks        \* the part of the plan apply has not written

clearVars == <<upgradable, archiveHead, account, storage, truth, hidden, step, scanned, plan, chunks>>

Blocks0 == 0..LastBlock

\* The newest version at or below a block.
NewestAt(versions, n) ==
    LET at == {b \in 0..n : versions[b] # NoVersion}
    IN  IF at = {} THEN -1 ELSE CHOOSE b \in at : \A c \in at : c <= b

\* read_storage_and_height, of the value.
ReadSlot(s, n) ==
    LET v == NewestAt(storage[s], n) IN IF v = -1 THEN 0 ELSE storage[s][v]

\* The account before block n.
AccountBefore(n) ==
    LET v == NewestAt(account, n - 1) IN IF v = -1 THEN NoAccount ELSE account[v]

----------------------------------------------------------------------------
(***************************************************************************)
(* The chain, and the archive as diffs alone build it.                     *)
(***************************************************************************)

\* What can happen to the contract in a block: the account version the diff
\* carries, and whether the storage it had is gone.
Fates(old, n) ==
    LET live == [code : Codes, nonce : Nonces]
        kept == {[to |-> NoVersion, gone |-> FALSE]}
        changed == {[to |-> a, gone |-> FALSE] :
                       a \in {l \in live : /\ l.nonce >= old.nonce
                                           /\ l.code = old.code \/ upgradable}}
        destroyed == {[to |-> NoAccount, gone |-> TRUE]}
        recreated == {[to |-> a, gone |-> TRUE] : a \in live}
    IN  IF old = NoAccount THEN kept \cup recreated \cup destroyed
        ELSE IF n < Before /\ ~upgradable THEN kept \cup changed \cup destroyed \cup recreated
        ELSE kept \cup changed

\* A block, which apply, having the archive to itself, does not meet: the slots
\* it writes are in its diff, also when the contract that wrote them is gone
\* at its end.
Import(fate, writes) ==
    LET n == archiveHead + 1
        old == AccountBefore(n)
        dead == IF fate.to = NoVersion THEN old = NoAccount ELSE fate.to = NoAccount
    IN  /\ n <= LastBlock /\ step # "applying"
        /\ fate \in Fates(old, n)
        /\ old = NoAccount /\ fate.to = NoVersion => \A s \in Slots : writes[s] = NoVersion
        /\ archiveHead' = n
        /\ account' = [account EXCEPT ![n] = fate.to]
        /\ storage' = [s \in Slots |-> [storage[s] EXCEPT ![n] = writes[s]]]
        /\ truth' = [s \in Slots |-> [truth[s] EXCEPT ![n] =
                        IF dead THEN 0
                        ELSE IF writes[s] # NoVersion THEN writes[s]
                        ELSE IF fate.gone THEN 0 ELSE truth[s][n - 1]]]
        /\ hidden' = (hidden \/ /\ fate.gone /\ old # NoAccount /\ fate.to # NoAccount
                                /\ fate.to.code = old.code
                                /\ fate.to.nonce >= old.nonce)
        /\ UNCHANGED <<upgradable, step, scanned, plan, chunks>>

----------------------------------------------------------------------------
(***************************************************************************)
(* The scan.                                                               *)
(***************************************************************************)

Deletions(h) == {b \in 0..h : account[b] = NoAccount}

\* Recreations::between, over consecutive versions of the account.
Recreations(h) ==
    {b \in 1..h :
        LET older == AccountBefore(b)
            newer == account[b]
        IN  /\ newer \notin {NoVersion, NoAccount} /\ older # NoAccount
            /\ b < Before
            /\ ~upgradable
            /\ newer.code # older.code \/ newer.nonce < older.nonce}

\* Mutant of ToZero: deletions alone are looked at.
ToZeroDeletions(h) ==
    {z \in [slot : Slots, at : Deletions(h)] :
        LET v == NewestAt(storage[z.slot], z.at)
        IN  v # -1 /\ storage[z.slot][v] # 0}

\* Mutant of ToZero: slots the block itself wrote are zeroed in any case.
ToZeroWritten(h) ==
    {z \in [slot : Slots, at : Deletions(h) \cup Recreations(h)] :
        LET v == NewestAt(storage[z.slot], z.at)
        IN  v # -1 /\ storage[z.slot][v] # 0}

\* Scanner::account: of each slot the version as of the deletion decides; one
\* written by the block that created the account again stands.
ToZero(h) ==
    {z \in [slot : Slots, at : Deletions(h) \cup Recreations(h)] :
        LET v == NewestAt(storage[z.slot], z.at)
        IN  /\ v # -1
            /\ z.at \in Recreations(h) => v # z.at
            /\ storage[z.slot][v] # 0}

\* The scan reads the archive as it was when it opened it.
Scan ==
    /\ step \in {"idle", "applied"}
    /\ scanned' = archiveHead
    /\ plan' = ToZero(archiveHead)
    /\ step' = "planned"
    /\ UNCHANGED <<upgradable, archiveHead, account, storage, truth, hidden, chunks>>

----------------------------------------------------------------------------
(***************************************************************************)
(* Apply: the plan in chunks, each committed by itself (here, of one slot).*)
(***************************************************************************)

BeginApply ==
    /\ step = "planned"
    /\ chunks' = plan
    /\ step' = "applying"
    /\ UNCHANGED <<upgradable, archiveHead, account, storage, truth, hidden, scanned, plan>>

\* Mutant of ApplyChunk: the zero is written one block early.
ApplyChunkEarly(z) ==
    /\ step = "applying"
    /\ z \in chunks
    /\ storage' = [storage EXCEPT ![z.slot][z.at - 1] = 0]
    /\ chunks' = chunks \ {z}
    /\ UNCHANGED <<upgradable, archiveHead, account, truth, hidden, step, scanned, plan>>

ApplyChunk(z) ==
    /\ step = "applying"
    /\ z \in chunks
    /\ storage' = [storage EXCEPT ![z.slot][z.at] = 0]
    /\ chunks' = chunks \ {z}
    /\ UNCHANGED <<upgradable, archiveHead, account, truth, hidden, step, scanned, plan>>

\* Every entry is read back as a zero of its block.
EndApply ==
    /\ step = "applying" /\ chunks = {}
    /\ step' = IF \A z \in plan : /\ NewestAt(storage[z.slot], z.at) = z.at
                                  /\ ReadSlot(z.slot, z.at) = 0
               THEN "applied" ELSE "failed"
    /\ UNCHANGED <<upgradable, archiveHead, account, storage, truth, hidden, scanned, plan, chunks>>

\* A crash between two chunks; the command is run again on the same plan, or
\* from the scan.
CrashApply ==
    /\ step = "applying"
    /\ step' \in {"planned", "idle"}
    /\ chunks' = {}
    /\ UNCHANGED <<upgradable, archiveHead, account, storage, truth, hidden, scanned, plan>>

ClearInit ==
    /\ upgradable \in BOOLEAN
    /\ archiveHead = 0
    /\ account = [b \in Blocks0 |-> NoVersion]
    /\ storage = [s \in Slots |-> [b \in Blocks0 |-> NoVersion]]
    /\ truth = [s \in Slots |-> [b \in Blocks0 |-> 0]]
    /\ hidden = FALSE
    /\ step = "idle" /\ scanned = 0 /\ plan = {} /\ chunks = {}

ClearNext ==
    \/ \E to \in [code : Codes, nonce : Nonces] \cup {NoVersion, NoAccount},
          gone \in BOOLEAN, w \in [Slots -> Values \cup {0, NoVersion}] :
             Import([to |-> to, gone |-> gone], w)
    \/ Scan \/ BeginApply \/ EndApply \/ CrashApply
    \/ \E z \in chunks : ApplyChunk(z)

ClearSpec == ClearInit /\ [][ClearNext]_clearVars

----------------------------------------------------------------------------
(***************************************************************************)
(* Properties.                                                             *)
(***************************************************************************)

\* Once a plan is applied, every slot reads at every block the scan saw what
\* the chain held there: nothing of a destroyed contract is left, and nothing
\* of a later one is lost (scan, apply).  A recreation that changed neither
\* code nor nonce leaves no trace in the archive and is excepted.
ClearedExact ==
    step = "applied" /\ ~hidden =>
        \A s \in Slots : \A n \in 0..scanned : ReadSlot(s, n) = truth[s][n]

\* The read-back at the end of apply never fails, whatever was imported and
\* however often apply was cut short in between, and a further scan of the same
\* blocks finds nothing more to zero (apply: "Read every entry back as a zero
\* of its block").
ApplySettles ==
    /\ step # "failed"
    /\ step = "applied" => ToZero(scanned) = {}

\* A read that is right stays right, through half-applied plans and growth of
\* the chain: a zero never hides a slot of a contract that lives (apply).
RightReadsStayRight ==
    [][\A s \in Slots : \A n \in 0..archiveHead :
          ReadSlot(s, n) = truth[s][n] => ReadSlot(s, n)' = truth'[s][n]]_clearVars

\* An applied plan repairs the archive, in full and for good (scan, apply).
RepairExact == ClearedExact /\ ApplySettles

ClearTypeOK ==
    /\ upgradable \in BOOLEAN /\ hidden \in BOOLEAN
    /\ archiveHead \in Blocks0 /\ scanned \in 0..archiveHead
    /\ account \in [Blocks0 -> [code : Codes, nonce : Nonces]
                                  \cup {NoVersion, NoAccount}]
    /\ storage \in [Slots -> [Blocks0 -> Values \cup {0, NoVersion}]]
    /\ truth \in [Slots -> [Blocks0 -> Values \cup {0}]]
    /\ step \in {"idle", "planned", "applying", "applied"}
    /\ plan \subseteq [slot : Slots, at : 0..scanned] /\ chunks \subseteq plan
    /\ step # "applying" => chunks = {}

\* What a slot holds after block n, told from the versions the archive has of
\* it and of its account.
SlotHistory(s, n) ==
    /\ AccountBefore(n + 1) = NoAccount => truth[s][n] = 0
    /\ storage[s][n] # NoVersion =>
          IF AccountBefore(n + 1) # NoAccount
          THEN truth[s][n] = storage[s][n] ELSE account[n] = NoAccount
    /\ storage[s][n] = NoVersion =>
          /\ truth[s][n] \in {0, truth[s][n - 1]}
          /\ n \in Recreations(n) => truth[s][n] = 0
          /\ ~hidden /\ n \notin Recreations(n) /\ AccountBefore(n + 1) # NoAccount
                => truth[s][n] = truth[s][n - 1]

\* The history of every slot up to the head; nothing precedes the first block.
HistoryInv ==
    /\ \A s \in Slots : storage[s][0] = NoVersion /\ truth[s][0] = 0
    /\ account[0] = NoVersion
    /\ \A s \in Slots : \A n \in 1..archiveHead : SlotHistory(s, n)

\* A plan covers what there is to zero among the blocks the scan saw, names only
\* slots that are empty there, and is written as far as it is said to be.
PlanInv ==
    /\ step # "idle" => ToZero(scanned) \subseteq plan
    /\ \A z \in plan : /\ z.at \in Deletions(scanned) \cup Recreations(scanned)
                       /\ truth[z.slot][z.at] = 0
    /\ step = "applying" => \A z \in plan \ chunks : storage[z.slot][z.at] = 0
    /\ step = "applied" => \A z \in plan : storage[z.slot][z.at] = 0

\* What the steps of the repair preserve.
ClearInv == ClearTypeOK /\ HistoryInv /\ PlanInv
=============================================================================
