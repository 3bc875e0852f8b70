\* Versions, tools on systems, profiles, registries, machines, configurations.
SPECIFICATION CatalogSpec
CONSTANTS
  Texts <- MCTexts
  Tools <- MCTools
  Systems <- MCSystems
  Packages <- MCPackages
  ProfileLists <- MCProfileLists
  Definitions <- MCDefinitions
  Commands <- MCCommands
  ToolFiles <- MCToolFiles
  ProfileFiles <- MCProfileFiles
  Machines <- MCMachines
  ConfigFiles <- MCConfigFiles
  Base = 10
  Places = 3
INVARIANTS ComparesByValue NativePreferred MinimumIsEnough MismatchesAreReal BestIsBest
  LoadedIsUsable ActionsAreRunnable EachLevelCounts
