SPECIFICATION Spec
CONSTANT Instances <- SmallInstances
INVARIANTS TablesSurvive NothingLost MergesByRank SplitsByPattern SpecialsStayWhole RefusesOnlyIncomplete
