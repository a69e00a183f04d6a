SPECIFICATION Spec
CONSTANTS
    Jobs <- MCJobs
    Parent <- MCParent
    Below <- MCBelow
    Grades <- MCGrades
    Sessions = {s1, s2}
    Asked = {1}
    Failing = {3}
SYMMETRY Symmetry
INVARIANT AccusedOnlyByContents
PROPERTY UndisturbedCovers
