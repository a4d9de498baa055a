SPECIFICATION BindingsSpec
CONSTANTS
  Root <- MCRoot
  Content <- MCContent
  Vcap <- MCVcap
  Meant <- MCMeant
  Dotted = {"..data", "..2024"}
  Types = {"xsuaa", "destination", "connectivity"}
  Names = {"", "a", "b", "bad"}
INVARIANTS
  BindingsTypeOK
  QuietReadExact
  OneBinding
