CONSTANTS
  Tabs = {t1, t2}
  Apps = {a1}
  Details = {d1, d2}
  ReminderKeys = {k1}
  None = None
  MaxVersion = 2
SPECIFICATION Spec
SYMMETRY Symmetry
INVARIANT TrailExplainsStatus
INVARIANT CopiesAreHonest
INVARIANT TransactionsAreIsolated
INVARIANT AppliedAtMatchesTrail
INVARIANT RatesAreFractions
INVARIANT OffersAreTheLegalMoves
PROPERTY NoSilentOverwrite
PROPERTY ImplementsAuditTrail
