--------------------------- MODULE LongTermMemory ---------------------------
(***************************************************************************)
(* The long-term memory of a user (LongTermMemoryService over the table    *)
(* memory.entries), as transactions: each action below is one, and what a  *)
(* request makes of several of them is told by its caller.                 *)
(*                                                                         *)
(* A row is named by its content and its source (both are in the unique    *)
(* constraint) and holds the tick at which it expires.  Rows of different  *)
(* users never meet: there is one user.  Left out: importance, attributes  *)
(* and similarity, so a search finds every row that is not expired.        *)
(***************************************************************************)
EXTENDS Integers, FiniteSets

CONSTANTS
  Contents,        \* what can be remembered
  RetentionDays,   \* the retention a caller may ask for, in ticks
  MaxClock         \* bound: ticks

ASSUME MemoryAssumption ==
  /\ RetentionDays \in Nat \ {0}
  /\ MaxClock \in Nat

VARIABLES
  expiry,          \* expires_at of each row
  clock,
  autoCapture,     \* auto_capture_enabled of the user's policy
  (* history *)
  told,            \* the expiry the last remember of a row returned
  deleted          \* rows the user deleted since

memoryVars == <<expiry, clock, autoCapture, told, deleted>>

Sources == {"manual", "explicit_tool", "conversation"}
Row     == Contents \X Sources

Absent      == -1                            \* there is no such row
NoRetention == 0                             \* retention_days is None
Forever     == MaxClock + RetentionDays + 1  \* expires_at is NULL

Expired(m) == expiry[m] # Absent /\ expiry[m] <= clock
Alive(m)   == expiry[m] > clock

(* search: the rows that are not expired, purged or not.                   *)
Recalled == {m \in Row : Alive(m)}

ExpiresAt(days) == IF days = NoRetention THEN Forever ELSE clock + days

(* The expiry a row has after remember: a row that is there keeps its own  *)
(* when the caller names no retention.                                     *)
Renewed(m, days) ==
  IF expiry[m] # Absent /\ days = NoRetention THEN expiry[m] ELSE ExpiresAt(days)

MemoryInit ==
  /\ expiry = [m \in Row |-> Absent]
  /\ clock = 0
  /\ autoCapture \in BOOLEAN
  /\ told = [m \in Row |-> Absent]
  /\ deleted = {}

\* Mutant: whatever expires at all is purged.
PurgeDated ==
  /\ expiry' = [m \in Row |-> IF expiry[m] < Forever THEN Absent ELSE expiry[m]]
  /\ UNCHANGED <<clock, autoCapture, told, deleted>>

PurgeExpired ==
  /\ expiry' = [m \in Row |-> IF Expired(m) THEN Absent ELSE expiry[m]]
  /\ UNCHANGED <<clock, autoCapture, told, deleted>>

Remember(m, days) ==
  /\ expiry' = [expiry EXCEPT ![m] = Renewed(m, days)]
  /\ told' = [told EXCEPT ![m] = Renewed(m, days)]
  /\ deleted' = deleted \ {m}
  /\ UNCHANGED <<clock, autoCapture>>

DeleteMemory(m) ==
  /\ expiry[m] # Absent
  /\ expiry' = [expiry EXCEPT ![m] = Absent]
  /\ deleted' = deleted \union {m}
  /\ UNCHANGED <<clock, autoCapture, told>>

SetPolicy(enabled) ==
  /\ autoCapture' = enabled
  /\ UNCHANGED <<expiry, clock, told, deleted>>

MemoryTick ==
  /\ clock < MaxClock /\ clock' = clock + 1
  /\ UNCHANGED <<expiry, autoCapture, told, deleted>>

MemoryTypeOK ==
  /\ expiry \in [Row -> {Absent} \union 0..Forever]
  /\ clock \in 0..MaxClock
  /\ autoCapture \in BOOLEAN
  /\ told \in [Row -> {Absent} \union 0..Forever]
  /\ deleted \subseteq Row
=============================================================================
