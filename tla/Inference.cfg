SPECIFICATION Spec
CONSTANTS
  Questions <- SomeQuestions
  States = {0, 1, 5}
  MaxQuestions = 2
  Tables <- SomeTables
  Logits <- SomeLogits
  NonFinite = NonFinite
  Large = Large
CONSTRAINT RunOnce
CHECK_DEADLOCK FALSE
INVARIANTS
  RowsAreOfficial
  BatchFindsOptions
  AnswersAreOfficial
