---------------------------- MODULE FolderServers ----------------------------
(***************************************************************************)
(* The folders of the Go server (SettledFolders), beside those of the      *)
(* TypeScript server (ReferenceFolders) and the exports of either server   *)
(* (UserExports), which take no step together.                             *)
(***************************************************************************)
EXTENDS SettledFolders

CONSTANTS
    UserFile,           \* files on the TypeScript server
    Tab,                \* and its tabs
    ReferenceScene, MaxRequests,
    Servers, Archive, None

VARIABLES reScene, place, content, dirty, request, made, still,
    server, objects, record, zip, disk, making, removing, sweep, up, shown, stayed, taken

reVars == <<reScene, place, content, dirty, request, made, still>>
exVars == <<server, objects, record, zip, disk, making, removing, sweep, up, shown, stayed, taken>>

(* The tabs of the TypeScript server.                                      *)
Re == INSTANCE ReferenceFolders WITH
    File <- UserFile, Req <- Tab, Scene <- ReferenceScene,
    scene <- reScene, object <- content, work <- request

(* Exports on either server.                                               *)
Ex == INSTANCE UserExports WITH
    File <- UserFile, Export <- Archive

ASSUME PartsAssumption == Re!ReferenceFoldersAssumption /\ Ex!UserExportsAssumption

-----------------------------------------------------------------------------
(* On the TypeScript server a file keeps its object and loses it with its  *)
(* row, the folders stay one tree, and an export holds what stayed below   *)
(* its folder; of either server, what stayed of the user's files; but for  *)
(* files that could not be read, which are passed over.                    *)
CascadeExact == Re!CascadeExact
TreeStays == Re!TreeStays
ExportWhole == Re!ExportWhole /\ Ex!ExportServed
=============================================================================
