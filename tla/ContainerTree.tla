--------------------------- MODULE ContainerTree ----------------------------
(***************************************************************************)
(* What a container says of its contents.  An archive and its members are  *)
(* rows of one table.  engine/pipeline.py rates a container by the worst   *)
(* thing in it when it analyses it, and api/dynamic.py does so for every   *)
(* container above a job whose detonation it folds in.  Each works on rows *)
(* its own session loaded, one after the other, and commits once.          *)
(*                                                                         *)
(* The session's unit of work: a row is read once, at its first SELECT, and*)
(* a commit writes the columns that differ from what was read.  A run keeps*)
(* the lock of a row from the moment it enters it; a report locks nothing  *)
(* before its commit.  The impact rating follows the verdict and is left   *)
(* out, and so is which evidence a rating rests on (DetonationSeam).       *)
(***************************************************************************)
EXTENDS Naturals, FiniteSets

CONSTANTS Jobs,       \* the rows of one submission, numbered as they were made
          Parent,     \* parent_job_id, or 0
          Below,      \* every row below a row, at any depth
          Grades,     \* Grades[j]: what an assessment of j alone may come to
          Sessions,   \* database sessions at work at once
          Asked,      \* bound: jobs whose re-analysis is asked for
          Failing     \* bound: jobs whose analysis may raise

ASSUME JobsAssumption ==
    /\ IsFiniteSet(Jobs) /\ Jobs \subseteq Nat \ {0}
    /\ Parent \in [Jobs -> Jobs \cup {0}]
    /\ Asked \subseteq Jobs /\ Failing \subseteq Jobs

ASSUME BelowAssumption ==
    /\ Below \in [Jobs -> SUBSET Jobs]
    /\ \A j, k \in Jobs : Parent[k] = j => k \in Below[j]
    /\ \A j \in Jobs : \A k \in Below[j] : Below[k] \subseteq Below[j]
    /\ \A j \in Jobs : \A k \in Below[j] : j < k /\ Parent[k] \in {j} \cup Below[j]

Score == 0..100
Rank == 0..2                                 \* _VERDICT_RANK
Grade == [score : Score, rank : Rank]
Unremarkable == [score |-> 0, rank |-> 0]

ASSUME GradesAssumption ==
    /\ Grades \in [Jobs -> SUBSET Grade]
    /\ \A j \in Jobs : Unremarkable \in Grades[j]

VARIABLES row,       \* row[j]: the committed row
          session,   \* session[s]: what a session has read and would write
          alone      \* history: open sessions no commit has come between

vars == <<row, session, alone>>

(* A verdict names the file it was given for.                              *)
Row == [status : {"completed", "failed"}, score : Score,
        verdict : [rank : Rank, by : Jobs]]

Unread == [status |-> "unread", score |-> 0, verdict |-> [rank |-> 0, by |-> 0]]
Nothing == [k \in Jobs |-> Unread]

Free == [kind |-> "free", job |-> 0, at |-> 0, base |-> Nothing, now |-> Nothing,
         entered |-> {}, done |-> {}]

Own(j, g) == [status |-> "completed", score |-> g.score,
              verdict |-> [rank |-> g.rank, by |-> j]]

Init == /\ row = [j \in Jobs |-> Own(j, Unremarkable)]
        /\ session = [s \in Sessions |-> Free]
        /\ alone = {}

-----------------------------------------------------------------------------
(* The inheritance.                                                        *)

Members(c) == {k \in Jobs : Parent[k] = c}

(* Mutated: the contents of the outermost container count for all of it.   *)
DescendantsOfRoot(c) == Jobs \ {c}

(* _descendants                                                            *)
Descendants(c) == Below[c]

(* Mutated: the verdict of the file with the highest score.                *)
WorstByScore(D, copy) ==
    CHOOSE d \in D : \A e \in D : copy[d].score >= copy[e].score

Worst(D, copy) ==
    CHOOSE d \in D : \A e \in D :
        \/ copy[d].verdict.rank > copy[e].verdict.rank
        \/ /\ copy[d].verdict.rank = copy[e].verdict.rank
           /\ copy[d].score >= copy[e].score

HighestScore(D, copy) ==
    LET worst == CHOOSE d \in D : \A e \in D : copy[d].score >= copy[e].score
    IN copy[worst].score

(* The score floor, and the verdict of the worst file, ranked by verdict   *)
(* first.  Both only ever raise.                                           *)
Raised(r, D, copy) ==
    [r EXCEPT !.score = IF D # {} /\ HighestScore(D, copy) > @
                        THEN HighestScore(D, copy) ELSE @,
              !.verdict = IF D # {} /\ copy[Worst(D, copy)].verdict.rank > @.rank
                          THEN [rank |-> copy[Worst(D, copy)].verdict.rank,
                                by |-> Worst(D, copy)]
                          ELSE @]

(* SELECT: a row the session already has is not refreshed.                 *)
Read(copy, S) == [k \in Jobs |-> IF k \in S /\ copy[k] = Unread THEN row[k] ELSE copy[k]]

Unlocked(s, k) == \A t \in Sessions \ {s} : k \notin session[t].entered

Changed(s) == {k \in Jobs : session[s].now[k] # session[s].base[k]}

Written(base, now, stored) == IF now = base THEN stored ELSE now

Flush(base, now, stored) ==
    [status  |-> Written(base.status, now.status, stored.status),
     score   |-> Written(base.score, now.score, stored.score),
     verdict |-> Written(base.verdict, now.verdict, stored.verdict)]

(* The flush of every changed row, in one transaction.                     *)
Commit(s) ==
    /\ \A k \in Changed(s) \cup {session[s].job} : Unlocked(s, k)
    /\ row' = [k \in Jobs |-> Flush(session[s].base[k], session[s].now[k], row[k])]
    /\ session' = [session EXCEPT ![s] = Free]
    /\ alone' = {}

Open(s, kind, j, at, new) ==
    /\ session[s].kind = "free"
    /\ ~\E t \in Sessions : session[t].kind = "run" /\ session[t].job = j
    /\ session' = [session EXCEPT ![s] = [Free EXCEPT !.kind = kind, !.job = j, !.at = at,
                                            !.base[j] = row[j], !.now[j] = new]]
    /\ alone' = alone \cup {s}
    /\ UNCHANGED row

-----------------------------------------------------------------------------
(* POST /report/{id}: of a file that runs, never of a container.           *)

Report(s, j, g) ==
    /\ Members(j) = {}
    /\ row[j].status = "completed"
    /\ Open(s, "report", j, Parent[j], Own(j, g))

(* reapply_to_ancestors, one container: it and its contents are read.      *)
Inherit(s) ==
    LET c    == session[s].at
        base == Read(session[s].base, {c} \cup Descendants(c))
        now  == Read(session[s].now, {c} \cup Descendants(c))
    IN /\ session[s].kind = "report"
       /\ c # 0
       /\ session' = [session EXCEPT ![s].at = Parent[c], ![s].base = base,
                        ![s].now = [now EXCEPT ![c] = Raised(@, Descendants(c), now)]]
       /\ UNCHANGED <<row, alone>>

EndReport(s) ==
    /\ session[s].kind = "report"
    /\ session[s].at = 0
    /\ Commit(s)

-----------------------------------------------------------------------------
(* Re-analysis of a job, and of its members in the same transaction.       *)

(* The claim, which waits for a run that has entered the row, and the load.*)
Reanalyze(s, j) ==
    /\ j \in Asked
    /\ Unlocked(s, j)
    /\ Open(s, "run", j, 0, row[j])

Going(s) == session[s].entered \ session[s].done

(* The next row of the recursion: the job, or a member of a row entered,   *)
(* one after the other.                                                    *)
Reachable(s, k) ==
    /\ k \notin session[s].entered
    /\ \/ k = session[s].job
       \/ /\ Parent[k] \in Going(s)
          /\ Members(Parent[k]) \cap Going(s) = {}
          /\ \A m \in Members(Parent[k]) : m < k => m \in session[s].done

Entered(s, k, loaded) ==
    session' = [session EXCEPT ![s].entered = @ \cup {k},
                               ![s].base = Read(@, loaded), ![s].now = Read(@, loaded)]

(* The first flush of the row, and the look-up of its members' rows.       *)
Enter(s, k) ==
    /\ session[s].kind = "run"
    /\ Reachable(s, k)
    /\ Unlocked(s, k)
    /\ Entered(s, k, Members(k))
    /\ UNCHANGED <<row, alone>>

(* The row is assessed and raised to its contents, as the session has them.*)
Complete(s, k, g) ==
    LET base == Read(session[s].base, Descendants(k))
        now  == Read(session[s].now, Descendants(k))
    IN /\ k \in Going(s)
       /\ Members(k) \subseteq session[s].done
       /\ session' = [session EXCEPT ![s].done = @ \cup {k}, ![s].base = base,
                        ![s].now = [now EXCEPT ![k] = Raised(Own(k, g), Descendants(k), now)]]
       /\ UNCHANGED <<row, alone>>

(* A stage raises: the row keeps the rating it had, and the run goes on.   *)
Fail(s, k) ==
    /\ k \in Failing
    /\ k \in Going(s)
    /\ Members(k) \cap Going(s) = {}
    /\ session' = [session EXCEPT ![s].done = @ \cup {k}, ![s].now[k].status = "failed"]
    /\ UNCHANGED <<row, alone>>

EndRun(s) ==
    /\ session[s].kind = "run"
    /\ session[s].job \in session[s].done
    /\ Commit(s)

-----------------------------------------------------------------------------
Next == \E s \in Sessions :
            \/ Inherit(s) \/ EndReport(s) \/ EndRun(s)
            \/ \E j \in Jobs : \/ Reanalyze(s, j) \/ Enter(s, j) \/ Fail(s, j)
                               \/ \E g \in Grades[j] : Report(s, j, g) \/ Complete(s, j, g)

Spec == Init /\ [][Next]_vars

-----------------------------------------------------------------------------
(* Properties.                                                             *)

Copies == [Jobs -> Row \cup {Unread}]
Session == [kind : {"free", "report", "run"}, job : Jobs \cup {0}, at : Jobs \cup {0},
            base : Copies, now : Copies, entered : SUBSET Jobs, done : SUBSET Jobs]

(* Every row a session has entered or changed is one it has read.          *)
TypeOK ==
    /\ row \in [Jobs -> Row]
    /\ session \in [Sessions -> Session]
    /\ alone \subseteq Sessions
    /\ \A s \in Sessions : \A k \in Jobs :
          /\ session[s].base[k] = Unread <=> session[s].now[k] = Unread
          /\ k \in session[s].entered => session[s].now[k] # Unread

(* Rated no lower than anything inside.                                    *)
Covers(r, c) ==
    \A d \in Below[c] : /\ r[c].score >= r[d].score
                        /\ r[c].verdict.rank >= r[d].verdict.rank

(* No verdict names, and no score comes from, a file outside the container *)
(* it stands on, however sessions meet (the walks of _descendants and of   *)
(* reapply_to_ancestors).                                                  *)
AccusedOnlyByContents ==
    \A c \in Jobs :
        /\ row[c].verdict.by \in {c} \cup Below[c]
        /\ \E d \in {c} \cup Below[c] : \E g \in Grades[d] : row[c].score = g.score

(* When nobody else commits while a report is folded in, each container    *)
(* above the job, at every level, covers all of its contents afterwards    *)
(* (reapply_to_ancestors); so does a completed run for the job it was      *)
(* asked for; and the report lowers none (reapply_container_inheritance:   *)
(* "it never lowers anything").                                            *)
UndisturbedCovers ==
    [][\A s \in alone : session[s].kind # "free" /\ session'[s].kind = "free" =>
          \A c \in Jobs :
              /\ (\/ session[s].kind = "report" /\ session[s].job \in Below[c]
                  \/ session[s].job = c /\ row'[c].status = "completed") => Covers(row', c)
              /\ session[s].kind = "report" /\ session[s].job # c =>
                    /\ row'[c].score >= row[c].score
                    /\ row'[c].verdict.rank >= row[c].verdict.rank]_vars

(* "A container cannot be safer than its contents": between any two        *)
(* commits a container that completed covers what is in it.                *)
ContainerCoversContents ==
    \A c \in Jobs : row[c].status = "completed" => Covers(row, c)
=============================================================================
