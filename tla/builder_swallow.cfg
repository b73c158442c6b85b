\* As builder_modules, one module, with modules that go on after a registrar call failed.
SPECIFICATION Spec
CONSTANTS
  Descriptors <- RegisterDescriptors
  NoDescriptor = NoDescriptor
  ModuleIds <- MCModuleIds
  Versions <- MCVersions
  Capabilities <- MCCapabilities
  Supported <- MCSupported
  Entries <- MCEntries
  ClockTypes <- MCClockTypes
  SystemIds = {1, 2}
  RustTypes = {"A", "B"}
  Propagates = FALSE
  MaxModules = 1
CHECK_DEADLOCK FALSE
INVARIANTS DeclarationsBound
