---------------------------- MODULE RegisterMap ----------------------------
(***************************************************************************)
(* One device's RegisterMap (register_map.py) as its threads use it: the   *)
(* API threads of Flask and the Modbus event loop, each executing the      *)
(* accesses of its calls one at a time, under the store's re-entrant lock  *)
(* exactly where the code takes it.  set_sim_defaults assigns the settings *)
(* and builds the profiles before it takes the lock, and read_signal looks *)
(* the profile up before it does: both are steps of their own here.        *)
(***************************************************************************)
EXTENDS RegisterOps

CONSTANTS
  Web,         \* the API threads
  Loop,        \* the thread of the Modbus servers' event loop
  SimSetters,  \* the API threads that change the simulation settings
  Nobody       \* the lock's owner when it is free

ASSUME ThreadsAssumption ==
  Loop \notin Web /\ SimSetters \subseteq Web /\ Nobody \notin Web \cup {Loop}

Thread == Web \cup {Loop}

VARIABLES
  store,        \* _store: the word of every cell (absent reads as 0)
  profiles,     \* _profiles and its indexes: the signals being simulated
  simDefaults,  \* _sim_defaults: the signals the settings select
  owner, depth, \* _lock: an RLock
  committed,    \* history: the store when the lock was last free
  pc, op, sec, acc,  \* per thread: phase, call, its section and access
  word,         \* per thread: the word a bit write has loaded
  built,        \* per thread: the profiles _build_profiles has built
  buf,          \* per thread: what the current locked block has read
  got           \* per thread: what the call has read so far

shared == <<store, profiles, simDefaults>>
lock == <<owner, depth, committed>>
vars == <<store, profiles, simDefaults, owner, depth, committed,
          pc, op, sec, acc, word, built, buf, got>>

Phases == {"idle", "wait", "next", "ready", "inside", "loaded", "done"}
NoCall == [outer |-> FALSE, sections |-> <<>>]

TypeOK ==
  /\ store \in [Cell -> Word]
  /\ profiles \in SUBSET SignalSet
  /\ simDefaults \in SUBSET SignalSet
  /\ owner \in Thread \cup {Nobody}
  /\ depth \in Nat
  /\ committed \in [Cell -> Word]
  /\ pc \in [Thread -> Phases]
  /\ op \in [Thread -> Calls \cup {NoCall}]
  /\ sec \in [Thread -> Nat \ {0}]
  /\ acc \in [Thread -> Nat \ {0}]
  /\ word \in [Thread -> Word]
  /\ built \in [Thread -> SUBSET SignalSet]
  /\ buf \in [Thread -> SUBSET Observation]
  /\ got \in [Thread -> SUBSET Observation]

Init ==
  /\ store = InitialStore
  /\ simDefaults \in SimChoices
  /\ profiles = simDefaults
  /\ owner = Nobody
  /\ depth = 0
  /\ committed = store
  /\ pc = [t \in Thread |-> "idle"]
  /\ op = [t \in Thread |-> NoCall]
  /\ sec = [t \in Thread |-> 1]
  /\ acc = [t \in Thread |-> 1]
  /\ word = [t \in Thread |-> {}]
  /\ built = [t \in Thread |-> {}]
  /\ buf = [t \in Thread |-> {}]
  /\ got = [t \in Thread |-> {}]

-----------------------------------------------------------------------------
Sections(t) == op[t].sections
HasSection(t) == sec[t] \in DOMAIN Sections(t)
This(t) == Sections(t)[sec[t]]
HasAccess(t) == acc[t] \in DOMAIN This(t).body
Now(t) == This(t).body[acc[t]]

MayCall(t) ==
  IF t = Loop THEN ModbusCalls
  ELSE ApiCalls \cup IF t \in SimSetters THEN SimCalls ELSE {}

\* Faulty variants, for checking that the properties notice: no lock at all; a
\* lock that is not counted, so that the inner block frees it.
CanEnterAnyway(t) == t \in Thread
LeaveAtOnce(t) == owner' = Nobody /\ depth' = depth - 1 /\ committed' = store

\* RLock.acquire and RLock.release.
CanEnter(t) == owner \in {t, Nobody}
Enter(t) == /\ CanEnter(t)
            /\ owner' = t
            /\ depth' = depth + 1
Leave(t) == /\ owner' = IF depth = 1 THEN Nobody ELSE owner
            /\ depth' = depth - 1
            /\ committed' = IF depth = 1 THEN store ELSE committed

Go(t, phase) == pc' = [pc EXCEPT ![t] = phase]
NextSection(t) == sec' = [sec EXCEPT ![t] = @ + 1]
NextAccess(t) == acc' = [acc EXCEPT ![t] = @ + 1]

\* A call starts; an outer call takes the lock around all its sections.
Begin(t, call) ==
  /\ pc[t] = "idle"
  /\ call \in MayCall(t)
  /\ op' = [op EXCEPT ![t] = call]
  /\ Go(t, IF call.outer THEN "wait" ELSE "next")
  /\ UNCHANGED <<shared, lock, sec, acc, word, built, buf, got>>

EnterOuter(t) ==
  /\ pc[t] = "wait"
  /\ Enter(t)
  /\ Go(t, "next")
  /\ UNCHANGED <<shared, committed, op, sec, acc, word, built, buf, got>>

(***************************************************************************)
(* The steps before a section's lock.                                      *)
(***************************************************************************)
AtPrep(t, prep) == pc[t] = "next" /\ HasSection(t) /\ This(t).prep = prep

\* read_signal finds a profile: the value is generated, nothing is locked.
LookupHit(t) ==
  /\ AtPrep(t, "lookup")
  /\ This(t).who \in profiles
  /\ IF op[t].outer
     THEN buf' = [buf EXCEPT ![t] = @ \cup Generated(This(t).who)] /\ UNCHANGED got
     ELSE got' = [got EXCEPT ![t] = @ \cup Generated(This(t).who)] /\ UNCHANGED buf
  /\ NextSection(t)
  /\ UNCHANGED <<shared, lock, pc, op, acc, word, built>>

LookupMiss(t) ==
  /\ AtPrep(t, "lookup")
  /\ This(t).who \notin profiles
  /\ Go(t, "ready")
  /\ UNCHANGED <<shared, lock, op, sec, acc, word, built, buf, got>>

\* set_sim_defaults: self._sim_defaults = sim_defaults, without the lock.
AssignDefaults(t) ==
  /\ AtPrep(t, "assign")
  /\ simDefaults' = This(t).sims
  /\ NextSection(t)
  /\ UNCHANGED <<store, profiles, lock, pc, op, acc, word, built, buf, got>>

\* _build_profiles: the profiles are resolved into locals, without the lock.
BuildProfiles(t) ==
  /\ AtPrep(t, "build")
  /\ built' = [built EXCEPT ![t] = simDefaults]
  /\ Go(t, "ready")
  /\ UNCHANGED <<shared, lock, op, sec, acc, word, buf, got>>

EnterSection(t) ==
  /\ pc[t] = "ready" \/ AtPrep(t, "none")
  /\ Enter(t)
  /\ acc' = [acc EXCEPT ![t] = 1]
  /\ Go(t, "inside")
  /\ UNCHANGED <<shared, committed, op, sec, word, built, buf, got>>

(***************************************************************************)
(* The accesses under the lock.                                            *)
(***************************************************************************)
AtAccess(t, do) == pc[t] = "inside" /\ HasAccess(t) /\ Now(t).do = do

\* A whole word is assigned (in every cell of a block when it is cleared).
StoreWord(t) ==
  /\ AtAccess(t, "write")
  /\ Now(t).mask = Bit
  /\ store' = [c \in Cell |-> IF c \in Now(t).cells THEN Now(t).bits ELSE store[c]]
  /\ NextAccess(t)
  /\ UNCHANGED <<profiles, simDefaults, lock, pc, op, sec, word, built, buf, got>>

\* A bit of a register: word = self._read_raw(rt, addr) ...
LoadWord(t) ==
  /\ AtAccess(t, "write")
  /\ Now(t).mask # Bit
  /\ word' = [word EXCEPT ![t] = UNION {store[c] : c \in Now(t).cells}]
  /\ Go(t, "loaded")
  /\ UNCHANGED <<shared, lock, op, sec, acc, built, buf, got>>

\* Faulty variant: only |= (1 << bit), so a bool is never cleared.
StoreBitOn(t) ==
  /\ pc[t] = "loaded"
  /\ store' = [c \in Cell |->
                 IF c \in Now(t).cells THEN word[t] \cup Now(t).bits ELSE store[c]]
  /\ word' = [word EXCEPT ![t] = {}]
  /\ NextAccess(t)
  /\ Go(t, "inside")
  /\ UNCHANGED <<profiles, simDefaults, lock, op, sec, built, buf, got>>

\* ... then the loaded word with that bit changed is written back.
StoreBit(t) ==
  /\ pc[t] = "loaded"
  /\ store' = [c \in Cell |->
                 IF c \in Now(t).cells
                 THEN (word[t] \ Now(t).mask) \cup (Now(t).bits \cap Now(t).mask)
                 ELSE store[c]]
  /\ word' = [word EXCEPT ![t] = {}]
  /\ NextAccess(t)
  /\ Go(t, "inside")
  /\ UNCHANGED <<profiles, simDefaults, lock, op, sec, built, buf, got>>

ReadWord(t) ==
  /\ AtAccess(t, "read")
  /\ buf' = [buf EXCEPT ![t] = @ \cup Stored(Now(t), store)]
  /\ NextAccess(t)
  /\ UNCHANGED <<shared, lock, pc, op, sec, word, built, got>>

\* Faulty variant: a read that forgets the overlay.
OverlaySkipped(t) ==
  /\ AtAccess(t, "overlay")
  /\ NextAccess(t)
  /\ UNCHANGED <<shared, lock, pc, op, sec, word, built, buf, got>>

\* _overlay_block, and the _sim_bit hit of read_coil.
OverlayGenerated(t) ==
  /\ AtAccess(t, "overlay")
  /\ buf' = [buf EXCEPT ![t] = {Overlaid(o, profiles) : o \in @}]
  /\ NextAccess(t)
  /\ UNCHANGED <<shared, lock, pc, op, sec, word, built, got>>

\* Faulty variant: profiles are swapped in only when simulation is switched on.
SwapWhenEnabled(t) ==
  /\ AtAccess(t, "swap")
  /\ profiles' = IF built[t] = {} THEN profiles ELSE built[t]
  /\ NextAccess(t)
  /\ UNCHANGED <<store, simDefaults, lock, pc, op, sec, word, built, buf, got>>

SwapProfiles(t) ==
  /\ AtAccess(t, "swap")
  /\ profiles' = built[t]
  /\ NextAccess(t)
  /\ UNCHANGED <<store, simDefaults, lock, pc, op, sec, word, built, buf, got>>

-----------------------------------------------------------------------------
\* What was read leaves the locked block with the lock's last release.
Deliver(t) == /\ got' = [got EXCEPT ![t] = @ \cup buf[t]]
              /\ buf' = [buf EXCEPT ![t] = {}]

LeaveSection(t) ==
  /\ pc[t] = "inside"
  /\ ~HasAccess(t)
  /\ Leave(t)
  /\ NextSection(t)
  /\ acc' = [acc EXCEPT ![t] = 1]
  /\ Go(t, "next")
  /\ IF op[t].outer THEN UNCHANGED <<got, buf>> ELSE Deliver(t)
  /\ UNCHANGED <<shared, op, word, built>>

\* Faulty variant: the outer block ends without releasing the lock.
LeaveOuterLocked(t) ==
  /\ pc[t] = "next"
  /\ op[t].outer
  /\ ~HasSection(t)
  /\ Deliver(t)
  /\ Go(t, "done")
  /\ UNCHANGED <<shared, lock, op, sec, acc, word, built>>

LeaveOuter(t) ==
  /\ pc[t] = "next"
  /\ op[t].outer
  /\ ~HasSection(t)
  /\ Leave(t)
  /\ Deliver(t)
  /\ Go(t, "done")
  /\ UNCHANGED <<shared, op, sec, acc, word, built>>

Return(t) ==
  /\ pc[t] = "done" \/ (pc[t] = "next" /\ ~op[t].outer /\ ~HasSection(t))
  /\ op' = [op EXCEPT ![t] = NoCall]
  /\ sec' = [sec EXCEPT ![t] = 1]
  /\ built' = [built EXCEPT ![t] = {}]
  /\ got' = [got EXCEPT ![t] = {}]
  /\ Go(t, "idle")
  /\ UNCHANGED <<shared, lock, acc, word, buf>>

Take(t) == EnterOuter(t) \/ EnterSection(t)
Step(t) ==
  \/ LookupHit(t) \/ LookupMiss(t) \/ AssignDefaults(t) \/ BuildProfiles(t)
  \/ StoreWord(t) \/ LoadWord(t) \/ StoreBit(t)
  \/ ReadWord(t) \/ OverlayGenerated(t) \/ SwapProfiles(t)
  \/ LeaveSection(t) \/ LeaveOuter(t) \/ Return(t)

Next == \E t \in Thread :
  \/ \E call \in MayCall(t) : Begin(t, call)
  \/ Take(t)
  \/ Step(t)

\* Every runnable thread runs on; the lock does not pass over a waiter forever.
Fairness == \A t \in Thread : WF_vars(Step(t)) /\ SF_vars(Take(t))

Spec == Init /\ [][Next]_vars
FairSpec == Spec /\ Fairness

-----------------------------------------------------------------------------
(***************************************************************************)
(* Properties.                                                             *)
(***************************************************************************)
\* The thread is inside the lock: how many times it holds it.
InOuter(t) == op[t].outer /\ pc[t] \in {"next", "ready", "inside", "loaded"}
InSection(t) == pc[t] \in {"inside", "loaded"}
Held(t) == (IF InOuter(t) THEN 1 ELSE 0) + (IF InSection(t) THEN 1 ELSE 0)

\* Mutual exclusion with re-entrance: only the owner is inside the lock, and its
\* depth is the number of "with self._lock" blocks the owner is in.
LockInv == /\ \A t \in Thread : Held(t) > 0 => owner = t
           /\ depth = IF owner = Nobody THEN 0 ELSE Held(owner)
           /\ owner = Nobody <=> depth = 0

\* The bits of a cell that are read for a signal, or for a raw block.
Covered(who, cell) ==
  IF who # NoSignal THEN SignalMask(who, cell)
  ELSE IF cell[1] \in BitTypes THEN {0} ELSE Bit

\* A locked block reads one instant: as long as it runs, everything it has read
\* so far (both words of a wide signal, all words of a block, all values of a
\* device) is still what the store holds.
ConsistentReads ==
  \A t \in Thread : \A o \in buf[t] :
    o.bits = (store[o.cell] \cap Covered(o.who, o.cell)) \ o.gen

\* Writing one bool of a register never undoes another thread's write to another
\* bit of it ("Atomic read-modify-write of a single bit in a 16-bit word").
KeepsOtherBits(t) ==
  pc[t] = "loaded" /\ pc'[t] = "inside" =>
    \A c \in Cell : store'[c] \ Now(t).mask = store[c] \ Now(t).mask
NoLostBits == [][\A t \in Thread : KeepsOtherBits(t)]_vars

\* A read that holds the lock over its profile lookup (block reads, coils, all
\* values) hands out generated values for exactly the signals simulated when the
\* lock is released, and stored bits for the others.
MaskedReads ==
  [][\A t \in Thread : \A o \in got'[t] \ got[t] :
       /\ o.who = NoSignal => o.bits \cap SimMask(profiles, o.cell) = {}
       /\ op[t].outer => (o.gen # {} <=> o.who \in profiles)]_vars

\* "Generation always wins over a client/UI write for a simulated signal": no
\* read of a signal, set_value's answer included, hands out the stored value of a
\* signal that is being simulated when the value is read.
\* TLC refutes it: README, "Disagreements".
GenerationWins ==
  [][\A t \in Thread : \A o \in got'[t] \ got[t] :
       o.who \in profiles => o.gen # {}]_vars

\* "Swap the project simulation settings and rebuild profiles": when no call is
\* under way, reads are simulated as the settings in force say.
SettingsApplied == (\A t \in Thread : pc[t] = "idle") => profiles = simDefaults

\* Every call returns: no thread waits for the lock forever.
CallsReturn == \A t \in Thread : pc[t] # "idle" ~> pc[t] = "idle"

(***************************************************************************)
(* Every call takes effect at one instant.  The store the abstract map has *)
(* is the one at the lock's last release; swapping profiles is visible at  *)
(* once to a read_signal that looks up without the lock, so that section   *)
(* is over, abstractly, with the swap.                                     *)
(***************************************************************************)
Swapped(t) == /\ pc[t] = "inside"
              /\ acc[t] > 1
              /\ This(t).body[acc[t] - 1].do = "swap"
AbstractPhase(t) ==
  IF pc[t] \in {"idle", "done"} THEN pc[t]
  ELSE IF op[t].outer \/ pc[t] \in {"wait", "next"} \/ Swapped(t) THEN "next"
  ELSE IF This(t).prep = "none" THEN "next" ELSE "ready"
AbstractPos(t) ==
  IF op[t].outer THEN 1 ELSE IF Swapped(t) THEN sec[t] + 1 ELSE sec[t]

Atomic == INSTANCE AtomicRegisterMap WITH
  store <- committed,
  phase <- [t \in Thread |-> AbstractPhase(t)],
  pos <- [t \in Thread |-> AbstractPos(t)]

\* The locked store implements the atomic one: no torn 32-bit value, no half-done
\* Simulate or Clear, no block read that mixes two writes.
ImplementsAtomic == Atomic!Spec
=============================================================================
