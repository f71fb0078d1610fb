SPECIFICATION Spec
INVARIANTS
  TypeOK
  TimerStateLive
  NoReentry
  NoSpuriousTimeout
PROPERTY RaceEnds
