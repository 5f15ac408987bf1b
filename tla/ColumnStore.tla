------------------------------ MODULE ColumnStore ------------------------------
(***************************************************************************)
(* The column configurations of one bucket (internal/column/config.go):    *)
(* one file per pattern in a directory, no lock.  A save first deletes the *)
(* configurations of its profile, then truncates its file and writes it.   *)
(***************************************************************************)
EXTENDS Naturals, FiniteSets

CONSTANTS Savers,        \* the calls of SaveConfig
          Config,          \* ... and what each saves
          Patterns,
          LengthOf,        \* the length of each pattern
          FileOf,          \* the file each is kept in: sanitizePath maps several to one
          Matching,        \* the files each pattern matches, as a path or by base name
          DeleteRequests,  \* patterns that DeleteConfig may be called with
          NoProfile

ASSUME ColumnAssumption ==
    /\ \A v \in Savers : Config[v].pattern \in Patterns
    /\ LengthOf \in [Patterns -> Nat]
    /\ DOMAIN FileOf = Patterns
    /\ DeleteRequests \subseteq Patterns
    /\ {"absent", "torn"} \cap Savers = {}

VARIABLES store,     \* each file: "absent", "torn", or who wrote it
          saving,    \* where each save is
          doomed,    \* the files of its profile that it has yet to delete
          overlapped \* history: two saves of one profile were under way at once

columnVars == <<store, saving, doomed, overlapped>>

ConfigFiles == {FileOf[p] : p \in Patterns}

PatternOf(v) == Config[v].pattern

ProfileOf(v) == Config[v].profile

\* List: the files that can be read and parsed.
Listed == {n \in ConfigFiles : store[n] \in Savers}

ColumnInit ==
    /\ store = [n \in ConfigFiles |-> "absent"]
    /\ saving = [v \in Savers |-> "idle"]
    /\ doomed = [v \in Savers |-> {}]
    /\ overlapped = FALSE

At(v, a, b) == saving[v] = a /\ saving' = [saving EXCEPT ![v] = b]

\* Fault: only a configuration of the same pattern is replaced.
SameProfileByPattern(v) == {FileOf[PatternOf(v)]} \cap Listed

\* What a save of a profile deletes first.
SameProfile(v) ==
    IF ProfileOf(v) = NoProfile THEN {}
    ELSE {n \in Listed : ProfileOf(store[n]) = ProfileOf(v)}

BeginSave(v) ==
    /\ At(v, "idle", "deleting")
    /\ doomed' = [doomed EXCEPT ![v] = SameProfile(v)]
    /\ overlapped' = (overlapped \/ \E u \in Savers : /\ saving[u] \in {"deleting", "writing"}
                                                      /\ ProfileOf(u) = ProfileOf(v))
    /\ UNCHANGED store

\* Delete, whatever is in the file by now.  Its error is dropped.
DeleteOld(v) ==
    /\ saving[v] = "deleting"
    /\ \E n \in doomed[v] :
         /\ store' = [store EXCEPT ![n] = "absent"]
         /\ doomed' = [doomed EXCEPT ![v] = @ \ {n}]
    /\ UNCHANGED <<saving, overlapped>>

\* os.WriteFile truncates ...
Truncate(v) ==
    /\ doomed[v] = {}
    /\ At(v, "deleting", "writing")
    /\ store' = [store EXCEPT ![FileOf[PatternOf(v)]] = "torn"]
    /\ UNCHANGED <<doomed, overlapped>>

\* ... and writes.
WriteConfig(v) ==
    /\ At(v, "writing", "saved")
    /\ store' = [store EXCEPT ![FileOf[PatternOf(v)]] = v]
    /\ UNCHANGED <<doomed, overlapped>>

\* DeleteConfig
DeleteConfig(p) ==
    /\ p \in DeleteRequests
    /\ store[FileOf[p]] # "absent"
    /\ store' = [store EXCEPT ![FileOf[p]] = "absent"]
    /\ UNCHANGED <<saving, doomed, overlapped>>

\* Match: of the listed configurations that match f the one with the longest
\* pattern, one of several of the same length, or none.
Candidates(f) == {v \in Savers : (\E n \in Listed : store[n] = v) /\ f \in Matching[PatternOf(v)]}

Match(f) == {v \in Candidates(f) :
                \A u \in Candidates(f) : LengthOf[PatternOf(v)] >= LengthOf[PatternOf(u)]}

\* The rest of a save that has begun.
SaveStep == \E v \in Savers : DeleteOld(v) \/ Truncate(v) \/ WriteConfig(v)

-------------------------------------------------------------------------------
(* Properties                                                               *)

ColumnTypeOK ==
    /\ store \in [ConfigFiles -> Savers \cup {"absent", "torn"}]
    /\ saving \in [Savers -> {"idle", "deleting", "writing", "saved"}]
    /\ doomed \in [Savers -> SUBSET ConfigFiles]
    /\ overlapped \in BOOLEAN

\* "delete any existing config with the same bucket + profile_name so the new
\* save overwrites it regardless of pattern": as long as no two saves of one
\* profile overlapped, a profile has at most one configuration.
OneConfigPerProfile ==
    ~overlapped =>
        \A m, n \in Listed :
            /\ ProfileOf(store[m]) = ProfileOf(store[n])
            /\ ProfileOf(store[m]) # NoProfile
            => m = n
===============================================================================
