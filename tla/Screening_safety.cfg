SPECIFICATION Spec
CONSTANTS
  Likeness <- MCLikeness
  SanctionedNames <- MCSanctionedNames
  PepNames <- MCPepNames
  HighRiskParties <- MCHighRiskParties
  BlockedCountries <- MCBlocked
  HighRiskCountries <- MCHighRisk
  MediumRiskCountries <- MCMediumRisk
  IndustryRisk <- MCIndustryRisk
  Profiles <- MCProfiles
  Cells <- MCCells
  Ledgers <- MCLedgers
  MaxTyped = 2
  MaxLost = 1
INVARIANTS
  TypeOK
  EscalationHolds
  FilingIsNeverLow
  ThinEvidenceIsLowConfidence
  GridIsAccepted
  ReportAgrees
PROPERTIES
  CashIsNotDiluted
CHECK_DEADLOCK FALSE
