CONSTANTS
  StrProbes <- MCStrProbes
  Codings <- MCCodings
SPECIFICATION Spec
INVARIANT ConfigurationParses
INVARIANT DescriptorsServed
INVARIANT NoReadPastStrings
INVARIANT EndpointsMatchDescriptor
