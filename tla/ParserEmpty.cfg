SPECIFICATION Spec
CONSTANTS
  Languages <- BodiesOnly
PROPERTY
  EmptyStatementPassed
