SPECIFICATION ObjectsSpec
CONSTANTS
 UINT8_MAX = 3
 INT32_MAX = 31
 UINT32_MAX = 63
 INT64_MAX = 127
 NANOS_IN_SEC = 4
 Doubles <- MCReals
 Singles <- MCReals
 DBL_MAX = 510
 FLT_MAX = 510
 Operands = {}
 PatternTexts <- MCNames
 strlen <- MCStrlen
 base_adms <- refda_loader_basemods
 more_adms <- library_adms
 OrgIds <- MCOrgIds
 ModelIds <- MCModelIds
 ObjIds <- MCObjIds
 ObjTypes <- MCObjTypes
 OdmIds <- MCOdmIds
 NsRefs <- MCNsRefs
 IdentArgs <- MCIdentArgs
 ValueArgs <- MCValueArgs
 SbrArgs <- MCSbrArgs
 TbrArgs <- MCTbrArgs
 MaxNs = 9
 MaxObjs <- MCMaxObjs
 MaxBases = 2
 MaxDerived = 2
INVARIANTS BaseModulesBind  StoreFinds IdentsListed
CHECK_DEADLOCK FALSE
