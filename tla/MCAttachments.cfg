\* Up to three targets, the same attachment by its id and by its bug among them,
\* every failure, one thing another user does in between; batches of two are
\* confirmed.  Answers with two attachments, written in every form, cut off at
\* every token, damaged by one token.
SPECIFICATION MCAllSpec
CONSTANTS
  Bugs = {b1, b2, b3}
  MaxTargets = 3
  MaxStored = 2
  BatchThreshold = 1
  MaxOthers = 1
  Answers <- MCAnswers
  Limit = 100
  MaxDepth = 18
INVARIANTS ExposedOnce TransfersTrue StreamedTrue
SYMMETRY Symmetry
\* The command ends.
CHECK_DEADLOCK FALSE
