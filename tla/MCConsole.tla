----------------------------- MODULE MCConsole ------------------------------
EXTENDS Attestation, TLC
CONSTANTS t1, t2, k1, c1, c2, s1, s2, unset, w1, w2

MCTenantOf == [k \in Keys |-> t1]
MCAsked == {<<3, 1>>, <<0, Left>>, <<0, 0>>}
Symmetry == Permutations(Callers)

(* Sessions, the tuning of the score and the evidence are each explored in *)
(* full beside the others at their simplest.                               *)
NoEvidence == row = Absent /\ run = Nothing /\ build = 1 /\ signing = s1
NoTuning == Changes = 0
OneSession == /\ now = 0 /\ job = <<>> /\ tenant = t1 /\ epoch = 0
              /\ Len(token) <= 1
              /\ \A c \in Callers : op[c].pc # "logout"
OneChange == /\ Changes <= 1 /\ dropped = <<>> /\ split.rule >= Default
             /\ \A c \in Callers : op[c].pc = "rule" => op[c].to.rule > Default
             /\ \A c \in Callers : op[c].pc = "record" => op[c].ok
             /\ Detonator(row) = "joe" => row.dynamic.worker = w1
             /\ sheets # <<>> => \A c \in Callers : op[c] = Idle
             /\ IF boot = 0 THEN signing = s1 ELSE \A c \in Callers : op[c] = Idle
Focus == \/ NoEvidence /\ NoTuning
         \/ NoEvidence /\ OneSession
         \/ OneSession /\ OneChange

(* Nothing that follows the last export can change it.                     *)
Open == Len(sheets) < MaxSheets

(* AttestSpec, as far as Focus and Open go.                                *)
MCInit == AttestInit /\ Focus

MCNext == \/ Open /\ Serve /\ UNCHANGED evidence /\ Focus'
          \/ Open /\ EvidenceStep /\ UNCHANGED vars /\ Focus'
          \/ Open /\ Redeploy /\ Focus'

MCSpec == MCInit /\ [][MCNext]_<<vars, evidence>>
=============================================================================
