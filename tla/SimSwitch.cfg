CONSTANT Instances <- SimSwitchInstances
SPECIFICATION FairSpec
INVARIANTS ReaderExcluded AnswersRouted MappingAgrees
PROPERTIES SwitchEnds
CHECK_DEADLOCK FALSE
