\* Two files that are edited, ingested, and ingested again.
SPECIFICATION Spec
CONSTANTS
  Source = {"CODEOWNERS", "runbook"}
  Text <- MCText
  Name <- MCName
  Path <- MCPath
  Rule <- MCRule
  Length <- MCLength
INVARIANTS FileIsWhole OwnerHasALongestClaim
PROPERTY NeverDisowned
