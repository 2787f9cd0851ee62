----------------------------- MODULE Installation -----------------------------
(***************************************************************************)
(* PerformInstallation and PerformHDDInstallation (system.c), from the     *)
(* count of the files to the end: the list, the optional folders of the    *)
(* payload, the cleanup of an earlier installation, the folders, the copy  *)
(* of the entries one after the other, and the switch for booting from the *)
(* hard disk.  CopyFiles has the inside of the copy to a memory card and   *)
(* Secrman that of the signing; an entry is one step here.                 *)
(***************************************************************************)
EXTENDS InstallLists, FiniteSets

CONSTANTS Consoles,    \* records [type, region, rom]
          Payloads,    \* [optional folder of the payload -> the entries it adds to a list]
          MaxAbsent,   \* how many files of the tables the payload may lack
          MaxFaults    \* how many calls fail

ASSUME ConsolesAssumption == \A c \in Consoles : c.region \in {"C", "J", "H", "A", "E"} /\ c.rom \in Nat /\ c.rom >= 256

(* The optional folders of the payload, and where the contents of each go. *)
PayloadFolders ==
  {"MC", "HDD/APPS", "HDD/CFG_FHDB", "HDD/CFG_PS2BBL", "HDD/HDD_OSD/sysconf", "HDD/HDD_OSD/system"}
Folder(part, dir) == [part |-> part, dir |-> dir]
Destination(f) ==
  CASE f = "MC" -> Folder("mc", <<>>) [] f = "HDD/APPS" -> Folder("__common", <<"APPS">>)
    [] f = "HDD/CFG_FHDB" -> Folder("__sysconf", <<"FMCB">>)
    [] f = "HDD/CFG_PS2BBL" -> Folder("__sysconf", <<"PS2BBL">>)
    [] f = "HDD/HDD_OSD/sysconf" -> Folder("__sysconf", <<>>)
    [] f = "HDD/HDD_OSD/system" -> Folder("__system", <<"osd">>)

(* What AddDirContentsToFileCopyList makes of a folder of the payload: it   *)
(* adds what it finds, below the destination, and after a folder what that *)
(* one holds.  An error of fileXioDread ends a folder like its last entry, *)
(* so a payload is what the reads return of it.                            *)
PayloadEntry ==
  [src : STRING, isdir : BOOLEAN, skip : {FALSE},
   path : [part : {"mc", "__common", "__sysconf", "__system"}, dir : Seq(STRING), name : STRING]]
Holder(e) == Folder(e.path.part, IF e.isdir THEN Front(e.path.dir) ELSE e.path.dir)
IsListing(s, root) ==
  \A n \in DOMAIN s :
    /\ s[n].path.part = root.part /\ IsPrefix(root.dir, s[n].path.dir)
    /\ s[n].isdir => s[n].path.dir # root.dir /\ s[n].path.name = ""
    /\ \/ Holder(s[n]) = root
       \/ \E k \in 1 .. n - 1 : s[k].isdir /\ Holder(s[n]) = Folder(s[k].path.part, s[k].path.dir)
ASSUME PayloadsAssumption ==
  /\ Payloads \subseteq [PayloadFolders -> Seq(PayloadEntry)]
  /\ \A p \in Payloads, f \in PayloadFolders : IsListing(p[f], Destination(f))

ASSUME BoundsAssumption == MaxAbsent \in Nat /\ MaxFaults \in Nat

VARIABLES
  console, target,  \* target is "mc" or "hdd"
  mode,             \* the flags of the installation
  payload,
  pc, result,       \* result is "ok" or "error"
  num,              \* NumFiles + NumDirectories
  list, i,          \* FileCopyList, and the entry in turn
  mounted, current, \* the partition at pfs0:, and CurrentlyMountedBlockDeviceName
  folders,          \* the folders there are: [part, dir]
  old, new,         \* the files there are: of an earlier installation, and copied
  unseen,           \* the files not written, or in part, by a call whose result is not looked at
  boot,             \* booting from the hard disk: "off", "on", or "before", on since earlier
  faults

inputVars == <<console, target, mode, payload>>
fileVars == <<folders, old, new, unseen>>
diskVars == <<mounted, current, fileVars, boot>>
vars == <<pc, result, num, list, i, faults, inputVars, diskVars>>

Fault == faults < MaxFaults /\ faults' = faults + 1

(* What menu.c asks for.  The other modes of an installation exist on a    *)
(* PS2 only, and a console has an HDD installation unless it is a PSX.     *)
Modes ==
  [mc |-> IF console.type = "PS2" THEN {{}, {"CROSS_MODEL"}, {"CROSS_REG"}, {"CROSS_PSX", "SKIP_CLEANUP"}} ELSE {{}},
   hdd |-> IF console.type = "PSX" THEN {} ELSE {{}}]
Earlier ==
  [mc |-> {Path("mc", <<SysExecFolder(console)>>, SysExecFile(console.rom)),
           Path("mc", <<"SYS-CONF">>, "FREEMCB.CNF")},
   hdd |-> {FHDB.path, Path("__system", <<"fsck">>, "fsck.elf"), Path("__sysconf", <<"FMCB">>, "FREEHDB.CNF")}]

Init ==
  /\ console \in Consoles /\ target \in {"mc", "hdd"}
  /\ payload \in Payloads
  /\ old \in {{}, Earlier[target]}
  /\ \E m \in Modes[target], kept \in SUBSET {"SKIP_CNF"} :
       (kept # {} => old # {}) /\ mode = m \cup kept
  /\ folders = {Folder(p.part, p.dir) : p \in old} \cup {Folder(p, <<>>) : p \in {"mc", "__system", "__sysconf", "__common"}}
  /\ new = {} /\ unseen = {} /\ mounted = "none" /\ current = "none"
  /\ boot \in IF target = "hdd" THEN {"off", "before"} ELSE {"off"}
  /\ pc = "count" /\ result = "ok" /\ num = 0 /\ list = <<>> /\ i = 1 /\ faults = 0

-----------------------------------------------------------------------------
(* The list, in memory for so many entries. *)
Count ==
  /\ pc = "count"
  /\ \/ /\ num' = IF target = "mc" THEN NumFiles(console, mode) ELSE NumFilesHDD(console)
        /\ pc' = "fill" /\ UNCHANGED <<result, faults>>
     \/ Fault /\ result' = "error" /\ pc' = "returned" /\ UNCHANGED num
  /\ UNCHANGED <<list, i, inputVars, diskVars>>

Fill ==
  /\ pc = "fill" /\ pc' = "stats"
  /\ list' = IF target = "mc" THEN FileCopyList(console, mode) ELSE FileCopyListHDD(console)
  /\ UNCHANGED <<result, num, i, faults, inputVars, diskVars>>

Stats ==
  /\ pc = "stats" /\ pc' = IF target = "mc" THEN "MC" ELSE "HDD/APPS"
  /\ \E absent \in SUBSET {e.src : e \in ToSet(list)} :
       /\ Cardinality(absent) <= MaxAbsent
       /\ list' = GetAllBaseFileStats(MGLetter(console, mode), list, absent)
  /\ UNCHANGED <<result, num, i, faults, inputVars, diskVars>>

\* Mutant: the configuration of the user is not spared.
MarkedNot(s, cnf) == s

(* SKIP_CNF spares the configuration of the user: of what was just added,  *)
(* the file of that name.                                                  *)
Marked(s, cnf) ==
  [n \in DOMAIN s |-> [s[n] EXCEPT !.skip = "SKIP_CNF" \in mode /\ s[n].path.name = cnf]]

Added(f) ==
  CASE f = "MC" -> Marked(payload[f], "FREEMCB.CNF") [] f = "HDD/CFG_FHDB" -> Marked(payload[f], "FREEHDB.CNF")
    [] OTHER -> payload[f]
After(f) ==
  CASE f = "MC" -> "space" [] f = "HDD/APPS" -> "HDD/CFG_FHDB" [] f = "HDD/CFG_FHDB" -> "HDD/CFG_PS2BBL"
    [] f = "HDD/CFG_PS2BBL" -> "HDD/HDD_OSD/sysconf" [] f = "HDD/HDD_OSD/sysconf" -> "HDD/HDD_OSD/system"
    [] f = "HDD/HDD_OSD/system" -> "cleanup"

(* AddDirContentsToFileCopyList for one optional folder of the payload; a  *)
(* folder that is not there adds nothing.  On an error the n entries that  *)
(* were added stay, without a mark, the last of them perhaps without its   *)
(* names; when it is realloc that fails, one more is counted.  The first   *)
(* error ends a hard disk installation, but not yet that of a card.        *)
AddDirContents ==
  /\ pc \in PayloadFolders
  /\ \/ /\ list' = list \o Added(pc)
        /\ num' = num + Len(payload[pc])
        /\ pc' = After(pc) /\ UNCHANGED <<result, faults>>
     \/ /\ Fault /\ result' = "error"
        /\ pc' = IF target = "mc" THEN "space" ELSE "returned"
        /\ \E n \in 0 .. Len(payload[pc]) :
             /\ list' = list \o SubSeq(payload[pc], 1, n)
             /\ num' = num + n \/ (n < Len(payload[pc]) /\ num' = num + n + 1)
  /\ UNCHANGED <<i, inputVars, diskVars>>

(* CalculateRequiredSpace against GetMcFreeSpace, after an error too. *)
Space ==
  /\ pc = "space"
  /\ \/ result = "ok" /\ pc' = "cleanup" /\ UNCHANGED result
     \/ pc' = "free" /\ result' = "error"
  /\ UNCHANGED <<num, list, i, faults, inputVars, diskVars>>

(* The end of either installation.  That of a card frees the names, num of *)
(* each; behind the end of the list anything may be there to be freed.     *)
Ending == IF target = "mc" THEN "free" ELSE "returned"
FreeNames ==
  /\ pc = "free"
  /\ pc' = "returned" \/ (num > Len(list) /\ pc' = "crashed")
  /\ UNCHANGED <<result, num, list, i, faults, inputVars, diskVars>>

-----------------------------------------------------------------------------
(* CleanupTarget: the system folders of every region, with all they hold,  *)
(* as far as they can be deleted; no error is reported.  _CleanupHDDTarget *)
(* does one partition after the other and ends when one cannot be mounted. *)
SystemFolders == << <<Exec("I")>>, <<Exec("E")>>, <<Exec("A")>>, <<Exec("C")>> >>
CleanedCard(files) == {p \in files : p.dir \notin ToSet(SystemFolders)}
CleanedSystem(files) == {p \in files : p # FHDB.path /\ p.dir # <<"fsck", "lang">> /\ p.name # "fsck.elf"}

(* DeleteFolderIfEmpty. *)
Without(there, files, some) ==
  {f \in there : f \in some => \E p \in files : p.part = f.part /\ IsPrefix(f.dir, p.dir)}
FoldersOfSystem == {Folder("__system", d) : d \in {<<"osd">>, <<"fsck">>, <<"fsck", "lang">>}}

CleanupMC ==
  /\ target = "mc"
  /\ \/ /\ old' = CleanedCard(old)
        /\ folders' = {f \in folders : f.dir \notin ToSet(SystemFolders)}
        /\ UNCHANGED faults
     \/ Fault /\ old' \in SUBSET old /\ CleanedCard(old) \subseteq old' /\ UNCHANGED folders
  /\ pc' = "folders" /\ UNCHANGED result

CleanupHDD ==
  /\ target = "hdd"
  /\ \/ /\ old' = CleanedSystem(old)
        /\ folders' = Without(folders, old', FoldersOfSystem \cup {Folder("__sysconf", <<"FMCB">>)})
        /\ pc' = "folders" /\ UNCHANGED <<result, faults>>
     \/ Fault /\ result' = "error" /\ pc' = "returned"
        /\ \/ UNCHANGED <<old, folders>>
           \/ /\ old' = CleanedSystem(old)
              /\ folders' = Without(folders, old', FoldersOfSystem)

Cleanup ==
  /\ pc = "cleanup"
  /\ IF "SKIP_CLEANUP" \in mode THEN pc' = "folders" /\ UNCHANGED <<result, faults, old, folders>>
     ELSE CleanupMC \/ CleanupHDD
  /\ UNCHANGED <<num, list, i, inputVars, mounted, current, new, unseen, boot>>

\* Mutant: only the folder of the console is made, in a cross-region installation too.
CardFoldersOfOne ==
  << <<"BOOT">>, <<"SYS-CONF">>, <<IF "CROSS_PSX" \in mode THEN Exec("I") ELSE SysExecFolder(console)>> >>

(* CreateBasicFolders, CreateBasicFoldersOnHDD.  The first ends with an    *)
(* error, the second leaves out what it cannot make.                       *)
CardFolders ==
  << <<"BOOT">>, <<"SYS-CONF">> >>
  \o IF EveryRegion(mode) THEN SystemFolders
     ELSE << <<IF "CROSS_PSX" \in mode THEN Exec("I") ELSE SysExecFolder(console)>> >>
HDDFolders ==
  FoldersOfSystem \cup {Folder("__sysconf", <<"FMCB">>), Folder("__sysconf", <<"PS2BBL">>), Folder("__common", <<"APPS">>)}

CreateBasicFolders ==
  /\ pc = "folders"
  /\ IF target = "mc"
     THEN \E n \in 0 .. Len(CardFolders) :
            /\ folders' = folders \cup {Folder("mc", CardFolders[k]) : k \in 1 .. n}
            /\ IF n = Len(CardFolders) THEN pc' = "copy" /\ UNCHANGED <<result, faults>>
               ELSE Fault /\ result' = "error" /\ pc' = Ending
     ELSE /\ pc' = "copy" /\ UNCHANGED result
          /\ \/ folders' = folders \cup HDDFolders /\ UNCHANGED faults
             \/ /\ Fault
                /\ \E lost \in {"__system", "__sysconf", "__common"} :
                     folders' = folders \cup {f \in HDDFolders : f.part # lost}
  /\ UNCHANGED <<num, list, i, inputVars, mounted, current, old, new, unseen, boot>>

-----------------------------------------------------------------------------
(* CopyFiles and CopyFilesToHDD, an entry at a time. *)
Copying == pc = "copy" /\ i <= Len(list)
This == list[i]

\* Mutant: __system and __sysconf are the same partition, by their first letters.
IsMountedByPrefix(part) == current = part \/ {current, part} = {"__system", "__sysconf"}

(* GetMountParams and strcmp: is the partition of a path the one mounted? *)
IsMounted(part) == current = part

(* Where an entry goes: on a hard disk, to pfs0:, which is mounted anew    *)
(* unless the name of the partition is that of the last one.               *)
Place(path) ==
  IF target = "hdd" /\ IsMounted(path.part) THEN [path EXCEPT !.part = mounted] ELSE path
Mount(path) ==
  IF target = "mc" \/ IsMounted(path.part) THEN UNCHANGED <<mounted, current>>
  ELSE mounted' = path.part /\ current' = path.part

Advance == i' = i + 1 /\ UNCHANGED <<pc, result, num, list, inputVars, boot>>
Fail ==
  /\ result' = "error" /\ pc' = Ending
  /\ mounted' = "none" /\ current' = "none"
  /\ UNCHANGED <<num, list, i, inputVars, boot>>

Skip ==
  /\ Copying /\ This.skip /\ Advance
  /\ UNCHANGED <<faults, mounted, current, fileVars>>

(* A folder that is there already is no error. *)
MakeFolder ==
  /\ Copying /\ ~This.skip /\ This.isdir
  /\ LET p == Place(This.path)
     IN \/ /\ Folder(p.part, Front(p.dir)) \in folders
           /\ Mount(This.path) /\ folders' = folders \cup {Folder(p.part, p.dir)}
           /\ Advance /\ UNCHANGED faults
        \/ Folder(p.part, Front(p.dir)) \notin folders /\ Fail /\ UNCHANGED <<faults, folders>>
        \/ Fault /\ Fail /\ UNCHANGED folders
  /\ UNCHANGED <<old, new, unseen>>

(* What is written is old no more; an error may leave it in part.  One     *)
(* that nobody looks at is none to the copy, which goes on.                *)
Written(p) == old' = old \ {p} /\ new' = new \cup {p} /\ unseen' = unseen \ {p}
WrittenUnseen(p) == old' = old \ {p} /\ new' = new \ {p} /\ unseen' = unseen \cup {p}

(* InstallMBRToHDD; what DEVCTL_SET_OSDMBR returns is not looked at. *)
CopyMBR ==
  /\ Copying /\ ~This.skip /\ This.path = MBR.path
  /\ \/ Advance /\ Written(MBR.path) /\ UNCHANGED <<faults, mounted, current>>
     \/ Advance /\ Fault /\ WrittenUnseen(MBR.path) /\ UNCHANGED <<mounted, current>>
     \/ Fault /\ Fail /\ UNCHANGED <<old, new, unseen>>
  /\ UNCHANGED folders

\* Mutant: a file that cannot be created is no error.
CopyFileAnyway ==
  /\ Copying /\ ~This.skip /\ ~This.isdir /\ This.path # MBR.path
  /\ LET p == Place(This.path)
     IN IF Folder(p.part, p.dir) \in folders
        THEN Written(p)
        ELSE UNCHANGED <<old, new, unseen>>
  /\ Mount(This.path) /\ Advance /\ UNCHANGED <<faults, folders>>

(* Any other file: one that is there is truncated, and left so when the    *)
(* copy fails after that.  What fclose (on a card, mcClose) returns is not *)
(* looked at, though it may be what writes the end of the file.            *)
CopyFile ==
  /\ Copying /\ ~This.skip /\ ~This.isdir /\ This.path # MBR.path
  /\ LET p == Place(This.path)
         ready == Folder(p.part, p.dir) \in folders
     IN \/ ready /\ Mount(This.path) /\ Advance /\ Written(p) /\ UNCHANGED faults
        \/ ready /\ Mount(This.path) /\ Advance /\ Fault /\ WrittenUnseen(p)
        \/ ~ready /\ Fail /\ UNCHANGED <<faults, old, new, unseen>>
        \/ Fault /\ Fail /\ UNCHANGED <<old, new, unseen>>
        \/ ready /\ Fault /\ Fail /\ old' = old \ {p} /\ new' = new \ {p} /\ UNCHANGED unseen
  /\ UNCHANGED folders

CopyDone ==
  /\ pc = "copy" /\ i > Len(list)
  /\ pc' = IF target = "hdd" THEN "boot" ELSE "free"
  /\ mounted' = "none" /\ current' = "none"
  /\ UNCHANGED <<result, num, list, i, faults, inputVars, fileVars, boot>>

(* EnableHDDBooting, which repeats its calls until they succeed. *)
EnableHDDBooting ==
  /\ pc = "boot" /\ pc' = "returned"
  /\ boot' = IF boot = "off" THEN "on" ELSE boot
  /\ UNCHANGED <<result, num, list, i, faults, inputVars, mounted, current, fileVars>>

Next ==
  \/ Count \/ Fill \/ Stats \/ AddDirContents \/ Space \/ FreeNames \/ Cleanup \/ CreateBasicFolders
  \/ Skip \/ MakeFolder \/ CopyMBR \/ CopyFile \/ CopyDone \/ EnableHDDBooting

Spec == Init /\ [][Next]_vars

-----------------------------------------------------------------------------
(* The list is filled with as many entries as were counted: one more would *)
(* be written behind the memory of the list, one less would be read as     *)
(* NULL.  The two go through the same tables with conditions of their own, *)
(* for each console and each mode of the menu.  Only a realloc that fails  *)
(* counts an entry the list has no memory for, and such a list is never    *)
(* used for a cleanup or a copy.                                           *)
ListExact ==
  \/ pc = "fill" \/ num = Len(list)
  \/ num = Len(list) + 1 /\ result = "error" /\ pc \in {"space", "free", "returned", "crashed"}

(* "Free filenames."  What is freed are the names of the list.  This fails *)
(* for a memory card, after a realloc that failed.                         *)
FreesOnlyNames == pc = "free" => num <= Len(list)

(* CreateBasicFolders, written apart from the tables, and the folders of   *)
(* the payload make the folder an entry goes to before its turn comes, in  *)
(* each region and mode, after whatever the cleanup deleted.               *)
FolderReady ==
  Copying /\ This.path # MBR.path /\ faults = 0 => Holder(This) \in folders

(* What is written is what the list says, where it says: no file goes to   *)
(* the partition of another, though pfs0: is only mounted anew when the    *)
(* name that was remembered differs.                                       *)
RightPartition ==
  new \cup unseen \subseteq {list[n].path : n \in {n \in DOMAIN list : ~list[n].skip /\ ~list[n].isdir}}

(* Booting from the hard disk is only switched on when each folder of the  *)
(* list is there and each file is, or was reported to be: every failure    *)
(* the code looks at, at whatever entry and in whatever phase, keeps it    *)
(* from being switched on.                                                 *)
AllThere(files) ==
  \A n \in DOMAIN list :
    ~list[n].skip => IF list[n].isdir THEN Folder(list[n].path.part, list[n].path.dir) \in folders
                     ELSE list[n].path \in files
BootOnlyWhenComplete == boot = "on" => AllThere(new \cup unseen)

(* The same of what is there indeed.  It fails: the results of fclose and  *)
(* of DEVCTL_SET_OSDMBR are not looked at.                                 *)
BootMeansComplete == boot = "on" => AllThere(new)

(* With SKIP_CNF the configuration of the user is as it was, whatever the  *)
(* cleanup deletes and wherever the installation ends, unless the folder   *)
(* of the payload that is copied to the root of __sysconf without a mark   *)
(* brings a file of its name.                                              *)
ConfigFiles == {Path("mc", <<"SYS-CONF">>, "FREEMCB.CNF"), Path("__sysconf", <<"FMCB">>, "FREEHDB.CNF")}
BroughtUnmarked ==
  target = "hdd"
  /\ \E n \in DOMAIN payload["HDD/HDD_OSD/sysconf"] : payload["HDD/HDD_OSD/sysconf"][n].path \in ConfigFiles
ConfigKept == "SKIP_CNF" \in mode => BroughtUnmarked \/ \E p \in ConfigFiles : p \in old

(* "Keep the user's existing configuration file, if requested."  It fails  *)
(* for a payload with HDD/HDD_OSD/sysconf/FMCB/FREEHDB.CNF.                 *)
ConfigAlwaysKept == "SKIP_CNF" \in mode => \E p \in ConfigFiles : p \in old
=============================================================================
