SPECIFICATION FairSession
CONSTANTS
  Defined <- MCDefined
  Declared <- MCDeclared
  Sites <- MCSites
  Pointers <- MCPointers
  Analyses <- MCAnalyses
  Silenced <- MCSilenced
  Depths = {1, 2}
  PatchPaths = {TRUE, FALSE}
  FileContents <- MCFileContents
  AskedFrom = {"main", "ext"}
  AskedTo = {"main"}
  MaxQueries = 3
  MaxEdits = 1
  Headings = {1, 2, 3}
  StructHeadings = {3}
  SourceOf <- MCSourceOf
  Props = {1, 2}
  Premises = {0, 1}
  MaxNotes = 4
  MaxFailures = 1
  Wrappers <- MCWrappers
  Globals <- MCGlobals
  Bodies <- MCBodies
  Marked <- MCMarked
  Reaching <- MCReaching
  PtQueries <- MCPtQueries
  Inline = 1
  GrowAt = {3}
  MaxAsked = 3
  ModuleValues <- MCModuleValues
  Types <- MCTypes
  Subtypes <- MCSubtypes
  StructName <- MCStructName
  Sized <- MCSized
  Names <- MCNames
  LastWith <- MCLastWith
  Demangled <- MCDemangled
  Stripped <- MCStripped
  Inner <- MCInner
  Suffixes <- MCSuffixes
  Groups <- MCGroups
  Inquiries <- MCInquiries
INVARIANTS TypeOK GraphExact PatchFresh AnswersExact
INVARIANTS NotesOrdered TreeTrue CachesTrue TestsExact
INVARIANTS IndexExact LookupsTrue PremisesNamed
PROPERTIES EveryQueryAnswered KeepsNotes
CHECK_DEADLOCK FALSE
