------------------------------- MODULE History ------------------------------
(***************************************************************************)
(* The commit history of TP_01/EXO-03 (commit.c, history.c): a ring of     *)
(* commits that history.commit_list enters at the commit made first.  A    *)
(* commit is its id; ids are given out in order and never again.           *)
(*                                                                         *)
(* The functions may be called in any order on any commit of the ring.     *)
(* Nothing keeps the first commit from being deleted; commit_list then     *)
(* refers to freed memory, and a function that follows it sets fault.      *)
(***************************************************************************)
EXTENDS Naturals, FiniteSets, SequencesExt

CONSTANTS
  MaxCommits,   \* bound on the commits ever made
  Versions      \* the <<major, minor>> that infos is asked about

\* call is a version, which is a pair, or one of two strings, which are not
ASSUME HistoryAssumption ==
  /\ MaxCommits \in Nat \ {0} /\ Versions \subseteq Nat \X Nat
  /\ "none" \notin Versions /\ "display" \notin Versions

Commits     == 1..MaxCommits
commit_list == 1

VARIABLES
  nextId,
  live,             \* the commits that are allocated
  next, prev,
  major, minor,
  first,            \* auxiliary: the commit the sequence starts with
  call,             \* the last function called on the history, and its argument
  shown,            \* the commits it displayed
  fault             \* freed memory was read

ring    == <<live, next, prev, first>>
version == <<major, minor>>
vars    == <<nextId, ring, version, call, shown, fault>>

Calls == {"none", "display"} \cup Versions

TypeOK ==
  /\ nextId \in 0..MaxCommits /\ live \subseteq 1..nextId /\ first \in Commits
  /\ next \in [Commits -> Commits] /\ prev \in [Commits -> Commits]
  /\ major \in [Commits -> Nat] /\ minor \in [Commits -> Nat]
  /\ call \in Calls /\ shown \in Seq(Commits) /\ fault \in BOOLEAN

\* new_history has made the commit "First", version 0-0
Init ==
  /\ nextId = 1 /\ live = {commit_list} /\ first = commit_list
  /\ next = [c \in Commits |-> c] /\ prev = [c \in Commits |-> c]
  /\ major = [c \in Commits |-> 0] /\ minor = [c \in Commits |-> 0]
  /\ call = "none" /\ shown = <<>> /\ fault = FALSE

-----------------------------------------------------------------------------
(* commit.c                                                                *)

NoBackLink(from, new) == [prev EXCEPT ![new] = from]
  \* mutant: from's old successor keeps its prev

BackLinks(from, new) == [prev EXCEPT ![next[from]] = new, ![new] = from]

NotCounted(new) == nextId   \* mutant: the id is given out again

Counted(new) == new

\* new_commit, and the linking that add_minor_commit and add_major_commit share
Insert(from) ==
  LET new == nextId + 1
  IN  /\ from \in live /\ new \in Commits
      /\ nextId' = Counted(new) /\ live' = live \cup {new}
      /\ next' = [next EXCEPT ![new] = next[from], ![from] = new]
      /\ prev' = BackLinks(from, new)
      /\ fault' = (next[from] \notin live)
      /\ call' = "none" /\ shown' = <<>> /\ UNCHANGED first

\* both raise the version of from itself, then give it to the new commit
add_minor_commit(from) ==
  /\ Insert(from)
  /\ minor' = [minor EXCEPT ![from] = @ + 1, ![nextId + 1] = minor[from] + 1]
  /\ major' = [major EXCEPT ![nextId + 1] = major[from]]

add_major_commit(from) ==
  /\ Insert(from)
  /\ major' = [major EXCEPT ![from] = @ + 1, ![nextId + 1] = major[from] + 1]
  /\ minor' = [minor EXCEPT ![nextId + 1] = 0]

LeavesNext(victim) == next   \* mutant: the predecessor keeps its next

SkipsVictim(victim) == [next EXCEPT ![prev[victim]] = next[victim]]

del_commit(victim) ==
  /\ victim \in live
  /\ next' = SkipsVictim(victim)
  /\ prev' = [prev EXCEPT ![next[victim]] = prev[victim]]
  /\ live' = live \ {victim}
  /\ first' = IF victim = first THEN next[victim] ELSE first
  /\ fault' = ({prev[victim], next[victim]} \ live # {})
  /\ call' = "none" /\ shown' = <<>>
  /\ UNCHANGED <<nextId, version>>

-----------------------------------------------------------------------------
(* history.c                                                               *)

SecondCommit == next[commit_list]   \* mutant: the loops skip the first commit

FirstCommit == commit_list

\* the commits that the loops over the ring look at: from commit_list up to, and
\* without, the commit before it
Passed ==
  LET p[i \in Commits] == IF i = 1 THEN FirstCommit ELSE next[p[i - 1]]
      ends == {i \in Commits : p[i] = prev[commit_list]}
  IN  SubSeq(p, 1, (CHOOSE i \in ends : \A j \in ends : i <= j) - 1)

\* a function that reads commit_list
Reads == IF commit_list \in live THEN UNCHANGED fault ELSE fault' = TRUE

display_history ==
  /\ Reads
  /\ IF fault' THEN UNCHANGED <<call, shown>>
               ELSE call' = "display" /\ shown' = Passed
  /\ UNCHANGED <<nextId, ring, version>>

Version(c) == <<major[c], minor[c]>>

HasVersion(c, v) == Version(c) = v

\* the loop moves on from the commit it finds before it ends
infos(v) ==
  LET found == {i \in DOMAIN Passed : HasVersion(Passed[i], v)}
      last  == CHOOSE i \in found : \A j \in found : i <= j
  IN  /\ Reads
      /\ IF fault' THEN UNCHANGED <<call, shown>>
                   ELSE /\ call' = v
                        /\ shown' = IF found = {} THEN <<>>
                                                  ELSE <<next[Passed[last]]>>
      /\ UNCHANGED <<nextId, ring, version>>

Halted == (fault \/ live = {}) /\ UNCHANGED vars

Next == \/ /\ ~fault
           /\ \/ \E c \in Commits : \/ add_minor_commit(c) \/ add_major_commit(c)
                                    \/ del_commit(c)
              \/ display_history
              \/ \E v \in Versions : infos(v)
        \/ Halted

Spec == Init /\ [][Next]_vars

-----------------------------------------------------------------------------
(* Properties.                                                             *)

\* the commits in the order of the ring
Order == LET p[i \in 1..Cardinality(live)] ==
               IF i = 1 THEN first ELSE next[p[i - 1]]
         IN  p

\* A history is a sequence: insertions and deletions leave the others in order.
Sequence == INSTANCE CommitSequence WITH Ids <- Commits, commits <- Order
Implements == Sequence!Spec

\* Freed memory is only read through commit_list, after del_commit of the first
\* commit: the pointers of the commits allocated never dangle.
FaultNeedsFirstDeleted == fault => commit_list \notin live

\* Both loops over the ring end before they come to its last commit (l.45 and 70), so
\* display_history leaves it out, always and only it.
DisplayMissesLast == call = "display" => Order = shown \o <<prev[commit_list]>>

\* infos looks for the version among all commits but the last, and shows the one after
\* the first commit that has it: its loop moves on once more (l.78).
InfosShowsNext ==
  call \in Versions =>
    LET s     == Order
        found == {i \in 1..(Len(s) - 1) : HasVersion(s[i], call)}
    IN  \/ found = {} /\ shown = <<>>
        \/ \E i \in found : shown = <<s[i + 1]>> /\ \A j \in found : i <= j

\* display_history "affiche tout l'historique, i.e. l'ensemble des commits de la liste"
\* (history.c:33-34), and infos "affiche le commit qui a pour numero de version
\* <major>-<minor> ou 'Not here !!!' s'il n'y a pas de commit correspondant" (l.55-56).
AnswersAsDocumented ==
  /\ call = "display" => shown = Order
  /\ call \in Versions => IF shown = <<>> THEN \A c \in live : ~HasVersion(c, call)
                                          ELSE HasVersion(shown[1], call)
=============================================================================
