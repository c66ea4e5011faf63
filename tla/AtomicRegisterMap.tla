------------------------- MODULE AtomicRegisterMap -------------------------
(***************************************************************************)
(* What a RegisterMap promises its callers: every locked block of a call   *)
(* takes effect at one instant.  An outer call (set_defaults,              *)
(* get_values_by_name) is one block; any other call is one block per       *)
(* section, with the steps it takes before the lock as separate instants.  *)
(* There is no lock here and no half-done write: RegisterMap implements    *)
(* this specification.                                                     *)
(***************************************************************************)
EXTENDS RegisterOps

CONSTANTS Web, Loop, SimSetters

Thread == Web \cup {Loop}

VARIABLES
  store, profiles, simDefaults,
  phase,   \* "idle", "next" block to run, "ready" (its first step is taken), "done"
  op, pos, \* per thread: the call and the section it is at
  built,   \* per thread: the profiles set_sim_defaults has resolved
  got      \* per thread: what the call has read so far

vars == <<store, profiles, simDefaults, phase, op, pos, built, got>>

NoCall == [outer |-> FALSE, sections |-> <<>>]

Init ==
  /\ store = InitialStore
  /\ simDefaults \in SimChoices
  /\ profiles = simDefaults
  /\ phase = [t \in Thread |-> "idle"]
  /\ op = [t \in Thread |-> NoCall]
  /\ pos = [t \in Thread |-> 1]
  /\ built = [t \in Thread |-> {}]
  /\ got = [t \in Thread |-> {}]

MayCall(t) ==
  IF t = Loop THEN ModbusCalls
  ELSE ApiCalls \cup IF t \in SimSetters THEN SimCalls ELSE {}

Here(t) == op[t].sections[pos[t]]
AtSection(t, prep) ==
  /\ phase[t] = "next"
  /\ ~op[t].outer
  /\ pos[t] \in DOMAIN op[t].sections
  /\ Here(t).prep = prep

Do(section) == {section.body[j].do : j \in DOMAIN section.body}
ReadsOf(section) ==
  UNION {Stored(section.body[j], store) :
           j \in {k \in DOMAIN section.body : section.body[k].do = "read"}}

\* What one section observes, all of it in the present store and profiles.
Observed(section, lookups) ==
  IF lookups /\ section.prep = "lookup" /\ section.who \in profiles
  THEN Generated(section.who)
  ELSE IF "overlay" \in Do(section)
       THEN {Overlaid(o, profiles) : o \in ReadsOf(section)}
       ELSE ReadsOf(section)

Begin(t, call) ==
  /\ phase[t] = "idle"
  /\ call \in MayCall(t)
  /\ op' = [op EXCEPT ![t] = call]
  /\ phase' = [phase EXCEPT ![t] = "next"]
  /\ UNCHANGED <<store, profiles, simDefaults, pos, built, got>>

Lookup(t) ==
  /\ AtSection(t, "lookup")
  /\ IF Here(t).who \in profiles
     THEN /\ got' = [got EXCEPT ![t] = @ \cup Generated(Here(t).who)]
          /\ pos' = [pos EXCEPT ![t] = @ + 1]
          /\ UNCHANGED phase
     ELSE /\ phase' = [phase EXCEPT ![t] = "ready"]
          /\ UNCHANGED <<got, pos>>
  /\ UNCHANGED <<store, profiles, simDefaults, op, built>>

Assign(t) ==
  /\ AtSection(t, "assign")
  /\ simDefaults' = Here(t).sims
  /\ pos' = [pos EXCEPT ![t] = @ + 1]
  /\ UNCHANGED <<store, profiles, phase, op, built, got>>

Resolve(t) ==
  /\ AtSection(t, "build")
  /\ built' = [built EXCEPT ![t] = simDefaults]
  /\ phase' = [phase EXCEPT ![t] = "ready"]
  /\ UNCHANGED <<store, profiles, simDefaults, op, pos, got>>

\* One locked section, at one instant.
Block(t) ==
  /\ phase[t] = "ready" \/ AtSection(t, "none")
  /\ store' = Effect(<<Here(t)>>, store)
  /\ profiles' = IF "swap" \in Do(Here(t)) THEN built[t] ELSE profiles
  /\ got' = [got EXCEPT ![t] = @ \cup Observed(Here(t), FALSE)]
  /\ pos' = [pos EXCEPT ![t] = @ + 1]
  /\ phase' = [phase EXCEPT ![t] = "next"]
  /\ UNCHANGED <<simDefaults, op, built>>

\* All sections of an outer call, at one instant.
WholeCall(t) ==
  /\ phase[t] = "next"
  /\ op[t].outer
  /\ store' = Effect(op[t].sections, store)
  /\ got' = [got EXCEPT ![t] = @ \cup
               UNION {Observed(op[t].sections[i], TRUE) : i \in DOMAIN op[t].sections}]
  /\ phase' = [phase EXCEPT ![t] = "done"]
  /\ UNCHANGED <<profiles, simDefaults, op, pos, built>>

End(t) ==
  /\ \/ phase[t] = "done"
     \/ phase[t] = "next" /\ ~op[t].outer /\ pos[t] \notin DOMAIN op[t].sections
  /\ phase' = [phase EXCEPT ![t] = "idle"]
  /\ op' = [op EXCEPT ![t] = NoCall]
  /\ pos' = [pos EXCEPT ![t] = 1]
  /\ built' = [built EXCEPT ![t] = {}]
  /\ got' = [got EXCEPT ![t] = {}]
  /\ UNCHANGED <<store, profiles, simDefaults>>

Next == \E t \in Thread :
  \/ \E call \in MayCall(t) : Begin(t, call)
  \/ Lookup(t) \/ Assign(t) \/ Resolve(t)
  \/ Block(t) \/ WholeCall(t) \/ End(t)

Spec == Init /\ [][Next]_vars
=============================================================================
