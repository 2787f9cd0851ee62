----------------------------- MODULE InstallLists -----------------------------
(***************************************************************************)
(* The list of files of an installation (system.c): the tables, what the   *)
(* console and the mode make of them, and how many entries the list is     *)
(* allocated with, which is counted before it is filled, by other code.    *)
(*                                                                         *)
(* A console is [type, region, rom]: PS2SystemType, the letter of romver   *)
(* and ROMVersion.  A mode is a set of INSTALL_MODE_FLAGs, named without   *)
(* that prefix.  A path is [part, dir, name]: "mc" or a partition, the     *)
(* folders, and the file.                                                  *)
(***************************************************************************)
EXTENDS Naturals, Sequences, SequencesExt

Exec(letter) ==
  CASE letter = "I" -> "BIEXEC-SYSTEM" [] letter = "E" -> "BEEXEC-SYSTEM" [] letter = "A" -> "BAEXEC-SYSTEM"
    [] letter = "C" -> "BCEXEC-SYSTEM" [] OTHER -> "BREXEC-SYSTEM"
Path(part, dir, name) == [part |-> part, dir |-> dir, name |-> name]
Entry(src, path) == [src |-> src, path |-> path, isdir |-> FALSE, skip |-> FALSE]
Card(src, folder, name) == Entry(src, Path("mc", <<folder>>, name))

ROM100J == << Card("OSDSYS.XLF", Exec("I"), "osdsys.elf") >>
ROM101J == << Card("OSD110.XLF", Exec("I"), "osd110.elf") >>
PS2Sys == << Card("FMCB.XLF", Exec("R"), "osdmain.elf"), Card("ENDVDPL.XRX", "SYS-CONF", "endvdpl.irx") >>
DEXSys == << Card("FMCB.XLF", Exec("R"), "osdmain.elf") >>
PSXSys == << Card("XFMCB.XLF", Exec("R"), "xosdmain.elf"), Card("XUDNL.XRX", Exec("R"), "xosdmain.irx"),
             Card("XENDVDPL.XRX", Exec("R"), "xendvdpl.irx") >>
HDDLOAD == << Card("DEV9.IRX", Exec("I"), "dev9.irx"), Card("ATAD.IRX", Exec("I"), "atad.irx"),
              Card("HDDLOAD.IRX", Exec("I"), "hddload.irx") >>
SysResource == << Card("FMCB.ICN", Exec("R"), "icon.icn"), Card("ICON.SYS", Exec("R"), "icon.sys") >>
FileAlias == << <<Exec("I"), "osd130.elf">>, <<Exec("I"), "osdmain.elf">>,
                <<Exec("E"), "osd130.elf">>, <<Exec("E"), "osdmain.elf">>,
                <<Exec("A"), "osd120.elf">>, <<Exec("A"), "osd130.elf">>, <<Exec("A"), "osdmain.elf">>,
                <<Exec("C"), "osdmain.elf">> >>

MBR == Entry("MBR.XLF", Path("__mbr", <<>>, ""))
FHDB == Entry("FHDB.XLF", Path("__system", <<"osd">>, "osdmain.elf"))
PS2SysHDD == << MBR, FHDB, Entry("ENDVDPL.XRX", Path("__sysconf", <<"FMCB">>, "endvdpl.irx")) >>
DEXSysHDD == << MBR, FHDB >>
Texts == << "NotoSans-Bold.ttf", "NotoSansJP-Bold.otf", "fonts.txt", "strings_JA.txt", "labels_JA.txt",
            "strings_FR.txt", "labels_FR.txt", "strings_SP.txt", "labels_SP.txt", "strings_GE.txt",
            "labels_GE.txt", "strings_IT.txt", "labels_IT.txt", "strings_DU.txt", "labels_DU.txt",
            "strings_PO.txt", "labels_PO.txt" >>
HDDBase ==
  << Entry("FSCK.XLF", Path("__system", <<"fsck">>, "fsck.elf")) >>
  \o [n \in DOMAIN Texts |-> Entry(Texts[n], Path("__system", <<"fsck", "lang">>, Texts[n]))]

-----------------------------------------------------------------------------
(* GetMGFolderLetter and UpdateRegionalPaths. *)
GetMGFolderLetter(region) ==
  CASE region = "C" -> "C" [] region = "J" -> "I" [] region \in {"H", "A"} -> "A" [] region = "E" -> "E"
    [] OTHER -> "R"

(* v1.00 and v1.01 use osd130.elf, other versions before v1.30 the next    *)
(* multiple of 16, and later ones osdmain.elf.                             *)
SysExecFile(rom) ==
  IF rom >= 304 THEN "osdmain.elf"
  ELSE LET up == IF rom \in {256, 257} THEN 304 ELSE ((rom + 16) \div 16) * 16
       IN CASE up = 272 -> "osd110.elf" [] up = 288 -> "osd120.elf" [] up = 304 -> "osd130.elf"
SysExecFolder(c) == Exec(GetMGFolderLetter(c.region))

TargetSystemType(c, mode) == IF "CROSS_PSX" \in mode THEN "PSX" ELSE c.type
MGLetter(c, mode) == IF "CROSS_PSX" \in mode THEN "I" ELSE GetMGFolderLetter(c.region)

EveryRegion(mode) == mode \cap {"MULTI_INST", "CROSS_REG"} # {}
EveryJapanese(c, mode) == EveryRegion(mode) \/ (MGLetter(c, mode) = "I" /\ "CROSS_MODEL" \in mode)

(* The names other models, or consoles of other regions, look for: of the  *)
(* eight of FileAlias, those that are wanted.                              *)
Own(c, alias) == alias = <<SysExecFolder(c), SysExecFile(c.rom)>>
Wanted(c, mode, alias) ==
  /\ "CROSS_MODEL" \in mode => alias[1] = SysExecFolder(c)
  /\ "CROSS_MODEL" \in mode \/ "CROSS_REG" \in mode
  /\ ~Own(c, alias)
Aliases(c, mode) ==
  LET Get(n) == IF Wanted(c, mode, FileAlias[n]) THEN <<FileAlias[n]>> ELSE <<>>
  IN Get(1) \o Get(2) \o Get(3) \o Get(4) \o Get(5) \o Get(6) \o Get(7) \o Get(8)

-----------------------------------------------------------------------------
(* NumFiles, as PerformInstallation and PerformHDDInstallation count it    *)
(* before the malloc of the list.                                          *)
NumFiles(c, mode) ==
  LET letter == MGLetter(c, mode)
  IN Len(SysResource)
     + (CASE TargetSystemType(c, mode) = "PSX" -> Len(PSXSys)
          [] TargetSystemType(c, mode) = "DEX" -> Len(DEXSys)
          [] OTHER -> Len(PS2Sys))
     + (IF EveryJapanese(c, mode) THEN Len(ROM100J) + Len(ROM101J)
        ELSE IF letter = "I" /\ c.rom = 256 THEN Len(ROM100J)
        ELSE IF letter = "I" /\ c.rom = 257 THEN Len(ROM101J) ELSE 0)
     + (IF EveryRegion(mode) THEN 3 * Len(SysResource) ELSE 0)
     + (IF EveryJapanese(c, mode) \/ (letter = "I" /\ c.rom <= 288) THEN Len(HDDLOAD) ELSE 0)
     + Len(Aliases(c, mode))

NumFilesHDD(c) == Len(HDDBase) + Len(IF c.type = "DEX" THEN DEXSysHDD ELSE PS2SysHDD)

(* The entries that depend on the type of the console. *)
SystemFiles(c, mode) ==
  CASE TargetSystemType(c, mode) = "PSX" -> PSXSys
    [] TargetSystemType(c, mode) = "DEX" -> DEXSys
    [] OTHER -> [PS2Sys EXCEPT ![1].path.name = SysExecFile(c.rom)]
                \o [n \in DOMAIN Aliases(c, mode) |->
                     Card(PS2Sys[1].src, Aliases(c, mode)[n][1], Aliases(c, mode)[n][2])]

\* Mutant: a v1.20 console is counted but gets no files for the hard disk.
JapaneseFilesOlder(c, mode) ==
  LET japan == MGLetter(c, mode) = "I"
      every == EveryJapanese(c, mode)
  IN (IF every \/ (japan /\ c.rom = 256) THEN ROM100J ELSE <<>>)
     \o (IF every \/ (japan /\ c.rom = 257) THEN ROM101J ELSE <<>>)
     \o (IF every \/ (japan /\ c.rom < 288) THEN HDDLOAD ELSE <<>>)

(* The additional files of Japanese consoles. *)
JapaneseFiles(c, mode) ==
  LET japan == MGLetter(c, mode) = "I"
      every == EveryJapanese(c, mode)
  IN (IF every \/ (japan /\ c.rom = 256) THEN ROM100J ELSE <<>>)
     \o (IF every \/ (japan /\ c.rom = 257) THEN ROM101J ELSE <<>>)
     \o (IF every \/ (japan /\ c.rom <= 288) THEN HDDLOAD ELSE <<>>)

(* The icon and the title of one system folder; the title has a source for *)
(* each region.                                                            *)
Resources(letter, folder) ==
  [n \in DOMAIN SysResource |->
    LET e == SysResource[n]
    IN [e EXCEPT !.path.dir = <<Exec(folder)>>,
                 !.src = IF e.src = "ICON.SYS" THEN "B" \o letter \o "ICON.SYS" ELSE e.src]]
ResourceFiles(c, mode) ==
  IF EveryRegion(mode)
  THEN Resources("I", "I") \o Resources("E", "E") \o Resources("A", "A") \o Resources("C", "C")
  ELSE Resources(MGLetter(c, mode), "R")

FileCopyList(c, mode) == SystemFiles(c, mode) \o JapaneseFiles(c, mode) \o ResourceFiles(c, mode)
FileCopyListHDD(c) == (IF c.type = "DEX" THEN DEXSysHDD ELSE PS2SysHDD) \o HDDBase

(* GetAllBaseFileStats: the letter of the region is put in, and a file not *)
(* in the payload is marked.                                               *)
GetAllBaseFileStats(letter, list, absent) ==
  [n \in DOMAIN list |->
    [list[n] EXCEPT !.path.dir = IF @ = <<Exec("R")>> THEN <<Exec(letter)>> ELSE @,
                    !.skip = @ \/ list[n].src \in absent]]
=============================================================================
