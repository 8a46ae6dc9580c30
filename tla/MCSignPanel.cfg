SPECIFICATION FairSpec
CONSTANTS
  t1 = t1
  t2 = t2
  i1 = i1
  i2 = i2
  now = now
  noNumber = noNumber
  None = None
  Items = {i1, i2}
  Texts = {t1, t2}
  Stamps = {now, noNumber}
  plaintext <- MCPlaintext
  trim <- OneBlank
  Number <- MCNumber
  Now = now
  default = default
  DefaultText <- default
  escaped = escaped
  LineTexts <- MCLineTexts
  rawSlice <- OneEscaped
  MaxCalls = 2
INVARIANTS
  TypeOK
  HashIsOfText
  FormIsOfItsItem
CONSTRAINT FewCalls
PROPERTIES
  UntouchedSignatureVerifies
  CallsEnd
