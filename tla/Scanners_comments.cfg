\* Statements of comments that the scanners do not keep, see README.md.
SPECIFICATION Spec
CONSTANTS
  SensitiveKeywords = {"pan", "cvv"}
  PanKeywords = {"number"}
  CardContextKeywords = {"number"}
  ExpiryKeywords = {"exp_month", "month"}
  SqlExpiryColumns = {"exp_month", "exp_date"}
  CardTables = {"cards"}
  PlaintextTypes = {"text"}
  SqlSources <- MCSqlSources
  AuditSources <- MCAuditSources
  AuthSources <- MCAuthSources
  PanSources <- MCPanSources
  MaxParentWalk = 2
  TrustedImports = {"ext/logger"}
  MiddlewareImports = {"app/logging", "ext/logger"}
  AutoTimestamp = {"zap"}
  FieldCategory <- MCFieldCategory
  WebhookMaxParentWalk = 2
  TrustedSignatureImports = {"ext/hmac"}
  MaxDepth = 5
  Normalize <- MCNormalize
  CardKeywords = {"pan", "cvv", "accountnumber"}
  PaymentIndicators = {"amount", "fee"}
  BankingSiblings = {"iban", "bic"}
  PciScopeSiblings = {"pan", "cvv"}
  SadFieldNames = {"CVV", "cvv"}
INVARIANTS
  SqlDropMeansGone
  AuthNoDuplicateMfa
  AuditNilMeansUnread
