------------------------------ MODULE Archive -------------------------------
(***************************************************************************)
(* One submission unpacked.  engine/archives.py reads a container within   *)
(* the bytes the submission has left and says of every member whether it   *)
(* was stored or why it was not; engine/pipeline.py makes a row of every   *)
(* stored member, analyses it in turn, and says in the container's row what*)
(* it did not look at.                                                     *)
(*                                                                         *)
(* Content is what a format's reader reports of a file.  The readers of the*)
(* standard library deliver at most the size a header declares, so a member*)
(* that understates its size is one that cannot be read.  Which bytes a    *)
(* member has is what file it is; the same file may lie in several places, *)
(* in itself too.  Sizes are in units of a quarter of the largest member.  *)
(***************************************************************************)
EXTENDS Naturals, FiniteSets, SequencesExt

CONSTANTS Files,           \* contents that occur
          Contents,        \* the ways [Files -> Content] they may be made
          Uploads,         \* files that are submitted
          MaxMembers,      \* MAX_MEMBERS
          MaxMemberSize,   \* MAX_MEMBER_BYTES
          MaxExpansion,    \* MAX_TOTAL_EXPANSION
          MaxDepth,        \* MAX_DEPTH
          MaxChildJobs,    \* MAX_CHILD_JOBS
          MaxTotalJobs,    \* MAX_TOTAL_CHILD_JOBS
          MaxReanalyses,   \* bound
          MaxFailures      \* bound: analyses that raise

Kinds == {"plain", "zip", "tar", "stream", "iso", "7z", "rar"}

(* A file of an archive that no reader can open is damaged; a 7z may expand*)
(* past max_extract_size while it is read.                                 *)
Content == [kind : Kinds, entries : Seq(
              [path : STRING, file : Files, size : Nat, is : {"file", "dir", "other"},
               locked : BOOLEAN, sound : BOOLEAN, bomb : BOOLEAN]),
            fault : {"none", "damaged", "expands"}]

ASSUME ArchiveAssumption ==
    /\ Contents \subseteq [Files -> Content] /\ Uploads \subseteq Files
    /\ {MaxMembers, MaxMemberSize, MaxExpansion, MaxDepth, MaxChildJobs, MaxTotalJobs,
        MaxReanalyses, MaxFailures} \subseteq Nat

VARIABLES inside,     \* what each file of the submission contains
          rows,       \* the jobs of the submission, in the order they were made
          stack,      \* the runs under way, the outermost first
          left,       \* _ChildBudget: what the submission may still spend
          password,   \* the password of the outermost run
          reanalyses, failures,
          last,       \* the job whose run ended last, when none is under way
          spent       \* history: what the members that were stored come to

archiveVars == <<inside, rows, stack, left, password, reanalyses, failures, last, spent>>

-----------------------------------------------------------------------------
(* archives.py: one listing, its members one after the other.              *)

Listed(content) ==
    SubSeq(content.entries, 1,
           IF Len(content.entries) > MaxMembers THEN MaxMembers ELSE Len(content.entries))

(* The formats that say when they have listed only a part.                 *)
Beyond(content) == /\ Len(content.entries) > MaxMembers
                   /\ content.kind \notin {"7z", "rar"}

(* What the readers ask of a member before they store it, in their order.  *)
(* A stream is asked after every chunk of it, so the smaller limit answers;*)
(* one that is not sound does not get that far.                            *)
AskedOfZip == <<"too_large", "bomb", "budget", "unreadable">>
AskedOfTar == <<"not_regular", "too_large", "budget", "unreadable">>
AskedOfStream(budget) == IF budget < MaxMemberSize THEN <<"unreadable", "budget", "too_large">>
                                                  ELSE <<"unreadable", "too_large", "budget">>
AskedOfIso == <<"too_large", "budget", "unreadable">>
AskedOf7z == <<"too_large", "bomb", "budget">>
AskedOfRar == <<"too_large", "budget", "unreadable">>

Asked(kind, budget) ==
    CASE kind = "zip" -> AskedOfZip [] kind = "tar" -> AskedOfTar
      [] kind = "stream" -> AskedOfStream(budget) [] kind = "iso" -> AskedOfIso
      [] kind = "7z" -> AskedOf7z [] kind = "rar" -> AskedOfRar

(* A RAR member that the password does not open cannot be read.            *)
Applies(reason, kind, e, budget, pw) ==
    CASE reason = "not_regular" -> e.is = "other"
      [] reason = "too_large"   -> e.size > MaxMemberSize
      [] reason = "bomb"        -> e.bomb
      [] reason = "budget"      -> e.size > budget
      [] reason = "unreadable"  -> ~e.sound \/ (kind = "rar" /\ e.locked /\ pw # "right")

Reason(content, e, budget, pw) ==
    LET asked == Asked(content.kind, budget)
        met == {i \in DOMAIN asked : Applies(asked[i], content.kind, e, budget, pw)}
    IN IF met = {} THEN "none" ELSE asked[Min(met)]

(* A 7z is read by name: of several members of one name the last counts.   *)
Shadowed(content, i) ==
    /\ content.kind = "7z"
    /\ \E k \in DOMAIN Listed(content) :
          k > i /\ Listed(content)[k].path = Listed(content)[i].path
            /\ Listed(content)[k].is # "dir"

(* Mutated: the first member the budget cannot pay for ends the listing,   *)
(* and the rest is not mentioned.                                          *)
TakeStops(content, acc, i, pw) ==
    LET e == Listed(content)[i]
        dir == e.is = "dir"
        why == IF dir THEN "none" ELSE Reason(content, e, acc.budget, pw)
        keep == ~dir /\ why = "none" /\ ~acc.cut
    IN [budget |-> acc.budget - (IF keep THEN e.size ELSE 0),
        cost   |-> acc.cost + (IF keep THEN e.size ELSE 0),
        cut    |-> acc.cut \/ why = "budget",
        out    |-> Append(acc.out, [path |-> e.path, file |-> e.file, size |-> e.size,
                                    stored |-> keep,
                                    reason |-> IF acc.cut THEN "none" ELSE why])]

(* One member.  A directory is passed over without a reason.  Running out  *)
(* of budget cuts the archive, except in a RAR; so does an extent of an ISO*)
(* that lies outside of the image.                                         *)
Take(content, acc, i, pw) ==
    LET e == Listed(content)[i]
        dir == e.is = "dir"
        why == IF dir THEN "none" ELSE Reason(content, e, acc.budget, pw)
        fits == ~dir /\ why = "none"
        stored == fits /\ ~Shadowed(content, i)
    IN [budget |-> acc.budget - (IF fits THEN e.size ELSE 0),
        cost   |-> acc.cost + (IF stored THEN e.size ELSE 0),
        cut    |-> acc.cut \/ (why = "budget" /\ content.kind # "rar")
                           \/ (why = "unreadable" /\ content.kind = "iso"),
        out    |-> Append(acc.out, [path |-> e.path, file |-> e.file, size |-> e.size,
                                    stored |-> stored,
                                    reason |-> why])]

Untaken(budget, cut) == [budget |-> budget, cost |-> 0, cut |-> cut, out |-> <<>>]

TakeAll(content, n, budget, pw) ==
    LET taken[i \in 0..n] == IF i = 0 THEN Untaken(budget, Beyond(content))
                             ELSE Take(content, taken[i - 1], i, pw)
    IN taken[n]

(* The first locked member that a ZIP reader tries to read.                *)
FirstLocked(content, budget) ==
    LET tried == {i \in DOMAIN Listed(content) :
                    /\ Listed(content)[i].locked /\ Listed(content)[i].is # "dir"
                    /\ TakeAll(content, i, budget, "right").out[i].reason \in {"none", "unreadable"}}
    IN IF tried = {} THEN 0 ELSE CHOOSE i \in tried : \A k \in tried : i <= k

Locked(content) == \E i \in DOMAIN Listed(content) : Listed(content)[i].locked

(* Past max_extract_size nothing is kept of what would have been.          *)
Withdrawn(out, budget) ==
    [budget |-> budget, cost |-> 0, cut |-> TRUE,
     out |-> [i \in DOMAIN out |->
                [out[i] EXCEPT !.stored = FALSE,
                               !.reason = IF @ = "none" THEN "budget" ELSE @]]]

(* unpack: what came out, what it cost, and how it ended.  What was stored *)
(* before an exception stays stored and paid for.                          *)
Unpack(content, budget, pw) ==
    LET all    == TakeAll(content, Len(Listed(content)), budget, pw)
        before == TakeAll(content, FirstLocked(content, budget) - 1, budget, pw)
        ends(how, got) == [how |-> how, out |-> got.out, cut |-> got.cut, cost |-> got.cost]
        nothing == Untaken(budget, FALSE)
        unlocked == ~Locked(content) \/ content.kind \notin {"zip", "7z", "rar"}
    IN IF content.kind = "7z" /\ ~unlocked /\ pw = "none" THEN ends("asked", nothing)
       ELSE IF content.kind = "7z" /\ ~unlocked /\ (pw = "wrong" \/ content.fault = "damaged")
            THEN ends("attempted", nothing)
       (* A tar that cannot be read is an empty one.                        *)
       ELSE IF content.fault = "damaged"
            THEN ends(IF content.kind = "tar" THEN "read" ELSE "failed", nothing)
       ELSE IF ~unlocked /\ pw = "none" THEN ends("asked", nothing)
       ELSE IF content.kind = "zip" /\ pw = "wrong" /\ FirstLocked(content, budget) > 0
            THEN ends("attempted", before)
       ELSE IF content.kind = "7z" /\ content.fault = "expands" THEN ends("read", Withdrawn(all.out, budget))
       ELSE ends("read", all)

-----------------------------------------------------------------------------
(* The rows and the runs.                                                  *)

Jobs == 1..Len(rows)

(* BLIND_SPOT_SIGNALS                                                      *)
BlindSpots == {"not_inspected", "nesting_limit", "budget_exhausted", "members_not_analysed"}
Marks == BlindSpots \cup {"truncated", "contents_not_examined"}

NewRow(file, parent, path) ==
    [file |-> file, parent |-> parent, path |-> path, status |-> "queued", marks |-> {}]

(* Mutated: every archive starts with a budget of its own.                 *)
PurseOwn == MaxExpansion

(* ExpansionBudget: one object for all the archives of a run.              *)
Purse == left.bytes

Fresh == [jobs |-> MaxTotalJobs, bytes |-> MaxExpansion]

NewRun(j, depth) == [job |-> j, depth |-> depth, pc |-> "unpack", listing |-> <<>>, todo |-> {},
                     existing |-> <<>>, promoted |-> 0, marks |-> {}]

ArchiveInit ==
    /\ inside = <<>>
    /\ rows = <<>> /\ stack = <<>>
    /\ left = Fresh
    /\ password = "none"
    /\ reanalyses = 0 /\ failures = 0
    /\ last = 0 /\ spent = 0

Top == stack[Len(stack)]
WithTop(frame) == [stack EXCEPT ![Len(stack)] = frame]

(* analyze: the row of a submission, and its run.                          *)
Submit(file) ==
    /\ rows = <<>>
    /\ rows' = <<NewRow(file, 0, "")>>
    /\ stack' = <<NewRun(1, 0)>>
    /\ inside' \in Contents
    /\ UNCHANGED <<left, password, reanalyses, failures, last, spent>>

(* provide_password and reanalyze: the run of one row, with a budget and a *)
(* depth of its own.                                                       *)
Reanalyse(j, pw) ==
    /\ stack = <<>>
    /\ reanalyses < MaxReanalyses
    /\ pw # "none" => rows[j].status = "awaiting_password"
    /\ reanalyses' = reanalyses + 1
    /\ stack' = <<NewRun(j, 0)>>
    /\ left' = Fresh /\ password' = pw
    /\ last' = 0 /\ spent' = 0
    /\ UNCHANGED <<inside, rows, failures>>

(* The next turn of a container's member loop.                             *)
Further(run) == [run EXCEPT !.todo = @ \ {Min(@)}, !.promoted = @ + 1]

(* A run ends, and the run of its container goes on to the next member.    *)
Return ==
    /\ stack' = IF Len(stack) = 1 THEN <<>>
                ELSE [Front(stack) EXCEPT ![Len(stack) - 1] = Further(@)]
    /\ last' = IF Len(stack) = 1 THEN stack[1].job ELSE 0

(* The password is the outermost run's.                                    *)
Password == IF Len(stack) = 1 THEN password ELSE "none"

(* The rows a container has when its run gets to its members, by path; of  *)
(* two rows of one path the later one.                                     *)
Existing(j) ==
    [p \in {rows[k].path : k \in {i \in Jobs : rows[i].parent = j}} |->
        CHOOSE k \in Jobs : /\ rows[k].parent = j /\ rows[k].path = p
                            /\ \A i \in Jobs : rows[i].parent = j /\ rows[i].path = p => i <= k]

(* extracted: the places of the members to be looked at, in their order.   *)
Stored(out) == {n \in DOMAIN out : out[n].stored}

(* _archive_stage up to the loop over the members.                         *)
Open ==
    /\ stack # <<>> /\ Top.pc = "unpack"
    /\ inside[rows[Top.job].file].kind # "plain"
    /\ LET got  == Unpack(inside[rows[Top.job].file], Purse, Password)
           deep == Top.depth >= MaxDepth
       IN /\ left' = [left EXCEPT !.bytes = Purse - got.cost]
          /\ spent' = spent + got.cost
          /\ IF got.how \in {"asked", "attempted"}
             THEN /\ rows' = [rows EXCEPT ![Top.job].status = "awaiting_password"]
                  /\ Return
             ELSE /\ stack' = WithTop([Top EXCEPT
                        !.pc = "members",
                        !.listing = got.out,
                        !.todo = IF deep THEN {} ELSE Stored(got.out),
                        !.existing = Existing(Top.job),
                        !.marks = (IF got.how = "failed" THEN {"not_inspected"} ELSE {})
                             \cup (IF got.cut THEN {"truncated"} ELSE {})
                             \cup (IF deep /\ got.how = "read" THEN {"nesting_limit"} ELSE {})])
                  /\ UNCHANGED <<rows, last>>
    /\ UNCHANGED <<inside, password, reanalyses, failures>>

(* A member gets a row, or the one it has, and is analysed then and there. *)
Promote ==
    /\ stack # <<>> /\ Top.pc = "members" /\ Top.todo # {}
    /\ Top.promoted < MaxChildJobs /\ left.jobs > 0
    /\ LET m     == Top.listing[Min(Top.todo)]
           known == m.path \in DOMAIN Top.existing
           child == IF known THEN Top.existing[m.path] ELSE Len(rows) + 1
       IN /\ rows' = IF known THEN rows ELSE Append(rows, NewRow(m.file, Top.job, m.path))
          /\ stack' = Append(stack, NewRun(child, Top.depth + 1))
    /\ left' = [left EXCEPT !.jobs = @ - 1]
    /\ UNCHANGED <<inside, password, reanalyses, failures, last, spent>>

(* The member loop breaks, and says so.                                    *)
Leave ==
    /\ stack # <<>> /\ Top.pc = "members" /\ Top.todo # {}
    /\ \/ Top.promoted >= MaxChildJobs \/ left.jobs = 0
    /\ stack' = WithTop([Top EXCEPT !.todo = {},
                            !.marks = @ \cup {IF Top.promoted >= MaxChildJobs
                                              THEN "members_not_analysed"
                                              ELSE "budget_exhausted"}])
    /\ UNCHANGED <<inside, rows, left, password, reanalyses, failures, last, spent>>

(* Everything below row j, where parent[k] is the row that k lies in.      *)
Inside(parent, j) ==
    LET below[k \in DOMAIN parent] ==
            LET children == {c \in DOMAIN parent : parent[c] = k}
            IN children \cup UNION {below[c] : c \in children}
    IN below[j]

Below(j) == Inside([k \in Jobs |-> rows[k].parent], j)

(* Mutated: the members, and not what lies in them.                        *)
MembersOnly(j) == {k \in Jobs : rows[k].parent = j}

(* _descendants                                                            *)
Descendants(j) == Below(j)

(* _has_blind_spot                                                         *)
Blind(j) == rows[j].marks \cap BlindSpots # {}

(* The rest of a run: the row says what it did not see, itself or below.   *)
Rate ==
    /\ stack # <<>>
    /\ \/ Top.pc = "members" /\ Top.todo = {}
       \/ Top.pc = "unpack" /\ inside[rows[Top.job].file].kind = "plain"
    /\ LET seen == IF /\ \E k \in Descendants(Top.job) : Blind(k)
                      /\ Top.marks \cap BlindSpots = {}
                   THEN {"contents_not_examined"} ELSE {}
       IN rows' = [rows EXCEPT ![Top.job].status = "completed",
                               ![Top.job].marks = Top.marks \cup seen]
    /\ Return
    /\ UNCHANGED <<inside, left, password, reanalyses, failures, spent>>

(* A step of the run raises: the row keeps the analysis it had.            *)
Raise ==
    /\ stack # <<>> /\ failures < MaxFailures
    /\ Top.pc = "members" => Top.todo = {}
    /\ failures' = failures + 1
    /\ rows' = [rows EXCEPT ![Top.job].status = "failed"]
    /\ Return
    /\ UNCHANGED <<inside, left, password, reanalyses, spent>>

ArchiveNext ==
    \/ \E f \in Uploads : Submit(f)
    \/ Open \/ Promote \/ Leave \/ Rate \/ Raise
    \/ \E j \in Jobs : \E pw \in {"none", "wrong", "right"} : Reanalyse(j, pw)

-----------------------------------------------------------------------------
ArchiveTypeOK ==
    /\ \A j \in Jobs : /\ rows[j].file \in Files /\ rows[j].parent \in 0..(j - 1)
                       /\ rows[j].status \in {"queued", "awaiting_password", "completed", "failed"}
                       /\ rows[j].marks \subseteq Marks
    /\ left.jobs \in 0..MaxTotalJobs /\ left.bytes \in 0..MaxExpansion
    /\ \A i \in DOMAIN stack : stack[i].job \in Jobs /\ stack[i].depth = i - 1
    /\ last \in {0} \cup Jobs

(* However deep the archives lie in one another, and whichever formats     *)
(* they are, what one run writes to the quarantine stays within the budget *)
(* of the submission, and no archive is followed past the nesting limit.   *)
SpendingBounded ==
    /\ spent <= MaxExpansion
    /\ Len(stack) <= MaxDepth + 1

(* Every file of a listing that is being worked on was either stored or    *)
(* given a reason, except the 7z members that share their name with a      *)
(* later one; what was stored fits a member's limit, and a reason "budget" *)
(* goes with the mark that the archive was cut, except in a RAR.           *)
MembersAccounted ==
    \A i \in DOMAIN stack :
        LET f == stack[i]
            content == inside[rows[f.job].file]
        IN f.pc = "members" =>
            /\ content.fault # "damaged" => Len(f.listing) = Len(Listed(content))
            /\ \A n \in DOMAIN f.listing :
                 /\ f.listing[n].stored => f.listing[n].size <= MaxMemberSize
                 /\ \/ f.listing[n].stored \/ f.listing[n].reason # "none"
                    \/ Listed(content)[n].is = "dir" \/ Shadowed(content, n)
                 /\ f.listing[n].reason = "budget" =>
                        "truncated" \in f.marks \/ content.kind = "rar"

(* What a run stored and does not turn to any more has a row of its own, or*)
(* the run carries one of the four signals of BLIND_SPOT_SIGNALS.          *)
StoredIsFollowed ==
    \A i \in DOMAIN stack :
        LET f == stack[i]
        IN f.pc = "members" /\ f.marks \cap BlindSpots = {} =>
            \A n \in Stored(f.listing) \ f.todo :
                \E k \in Jobs : rows[k].parent = f.job /\ rows[k].path = f.listing[n].path

(* Of the four signals, the row that a completed outermost run leaves says *)
(* that they occur below it, at any depth.  No other mark travels: an      *)
(* archive in an archive that waits for a password, or whose listing was   *)
(* cut, says so on its own row alone.                                      *)
SignalsSurface ==
    (stack = <<>> /\ last # 0 /\ rows[last].status = "completed") =>
        ((\E k \in Below(last) : Blind(k)) =>
            rows[last].marks \cap (BlindSpots \cup {"contents_not_examined"}) # {})

(* A member that is stored and not analysed leaves one of the four signals *)
(* of BLIND_SPOT_SIGNALS, and these four come to the surface.              *)
BlindSpotsSurface == StoredIsFollowed /\ SignalsSurface

(* "A blind spot found three levels down is still this submission's blind  *)
(* spot": whatever holds an archive from being read in full is said by the *)
(* outermost row.  The code does not keep it for the marks that are not    *)
(* among the four, nor for a password: see the README.                     *)
UnseenSurfaces ==
    (stack = <<>> /\ last # 0 /\ rows[last].status = "completed") =>
        ((\E k \in Below(last) : rows[k].marks # {} \/ rows[k].status = "awaiting_password") =>
            rows[last].marks # {})
=============================================================================
