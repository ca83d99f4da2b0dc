----------------------------- MODULE MCJudgeRuns -----------------------------
(* Small instances of JudgeRuns. *)
EXTENDS JudgeRuns

CONSTANTS b1, b2

OneRun == {1}
TwoRuns == {1, 2}
NoHandoffs == {}
OneHandoff == {1}
TwoHandoffs == {1, 2}
OneBrowser == {b1}
TwoBrowsers == {b1, b2}
====
