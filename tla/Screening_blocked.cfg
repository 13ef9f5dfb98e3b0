SPECIFICATION Spec
CONSTANTS
  Likeness <- MCLikeness
  SanctionedNames <- MCSanctionedNames
  PepNames <- MCPepNames
  HighRiskParties <- MCHighRiskParties
  BlockedCountries <- MCBlocked
  HighRiskCountries <- MCHighRisk
  MediumRiskCountries <- MCMediumRisk
  IndustryRisk <- MCIndustryRisk
  Profiles <- MCProfiles
  Cells <- MCCells
  Ledgers <- MCLedgers
  MaxTyped = 1
  MaxLost = 1
INVARIANTS
  BlockedExposureIsNeverLow
CHECK_DEADLOCK FALSE
