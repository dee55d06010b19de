\* Includes under three names, and programs of two files.
SPECIFICATION FairSpec
CONSTANTS
  NoFile = NoFile
  Names <- MCNames
  Directory <- MCDirectory
  File <- MCFile
  Builds <- MCBuilds
  Prologues <- MCPrologues
INVARIANTS TypeOK ChainSound CircularFound LocationsTrue LaidOut ImageIsWhole ReferencesFind LocalsApart
PROPERTIES ReadToTheEnd
