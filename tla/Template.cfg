SPECIFICATION FairSpec
CONSTANTS
  Namespaces = {n1}
  None = None
  MaxSpecs = 2
  MaxTroubles = 1
INVARIANT TypeOK
PROPERTY CreateUnderTemplate
PROPERTY HcpServed
PROPERTY HcpReleased
PROPERTY TemplateGoes
