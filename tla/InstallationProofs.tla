-------------------------- MODULE InstallationProofs --------------------------
(***************************************************************************)
(* The installations for every console the code can be told of and any     *)
(* payload: first what the tables make, as lemmas on the operators of      *)
(* InstallLists, then the invariant of the installation.                   *)
(***************************************************************************)
EXTENDS Installation, TLAPS

Letters == {"I", "E", "A", "C", "R"}

(* What the tables are made of, the letter of a region put in or not. *)
Sources ==
  {"OSDSYS.XLF", "OSD110.XLF", "FMCB.XLF", "ENDVDPL.XRX", "XFMCB.XLF", "XUDNL.XRX", "XENDVDPL.XRX",
   "DEV9.IRX", "ATAD.IRX", "HDDLOAD.IRX", "FMCB.ICN", "ICON.SYS", "MBR.XLF", "FHDB.XLF", "FSCK.XLF"}
  \cup {"B" \o letter \o "ICON.SYS" : letter \in Letters} \cup ToSet(Texts)
Folders == {Exec(letter) : letter \in Letters} \cup {"SYS-CONF", "FMCB", "osd", "fsck", "lang"}
SystemNames ==
  {"osdsys.elf", "osd110.elf", "osd120.elf", "osd130.elf", "osdmain.elf", "endvdpl.irx", "xosdmain.elf",
   "xosdmain.irx", "xendvdpl.irx", "dev9.irx", "atad.irx", "hddload.irx", "icon.icn", "icon.sys"}
Names == SystemNames \cup {"", "fsck.elf"} \cup ToSet(Texts)
Parts == {"mc", "__mbr", "__system", "__sysconf"}
BaseEntry ==
  [src : Sources, isdir : {FALSE}, skip : BOOLEAN,
   path : [part : Parts, dir : Seq(Folders), name : Names]]
Alias == {Exec(letter) : letter \in Letters} \X SystemNames

LEMMA Elements == ASSUME NEW S, NEW s \in Seq(S)
                  PROVE  Len(s) \in Nat /\ DOMAIN s = 1 .. Len(s) /\ \A n \in 1 .. Len(s) : s[n] \in S
  OBVIOUS

LEMMA Sequence == ASSUME NEW S, NEW n \in Nat, NEW f \in [1 .. n -> S]
                  PROVE  f \in Seq(S) /\ Len(f) = n
  OBVIOUS

LEMMA Join == ASSUME NEW a \in Seq(BaseEntry), NEW b \in Seq(BaseEntry)
              PROVE  a \o b \in Seq(BaseEntry) /\ Len(a \o b) = Len(a) + Len(b)
  OBVIOUS

LEMMA EntryType ==
  ASSUME NEW src \in Sources, NEW part \in Parts, NEW dir \in Seq(Folders), NEW name \in Names
  PROVE  Entry(src, Path(part, dir, name)) \in BaseEntry
  BY DEF Entry, Path, BaseEntry

LEMMA CardEntry ==
  ASSUME NEW src \in Sources, NEW folder \in Folders, NEW name \in SystemNames
  PROVE  Card(src, folder, name) \in BaseEntry
<1>1. <<folder>> \in Seq(Folders)
  OBVIOUS
<1>2. "mc" \in Parts /\ name \in Names
  BY DEF Parts, Names
<1> QED
  BY <1>1, <1>2, EntryType DEF Card

LEMMA SystemFolder == ASSUME NEW letter \in Letters PROVE Exec(letter) \in Folders
  BY DEF Folders

LEMMA CardTables ==
  /\ ROM100J \in Seq(BaseEntry) /\ Len(ROM100J) = 1
  /\ ROM101J \in Seq(BaseEntry) /\ Len(ROM101J) = 1
  /\ PS2Sys \in Seq(BaseEntry) /\ Len(PS2Sys) = 2
  /\ DEXSys \in Seq(BaseEntry) /\ Len(DEXSys) = 1
  /\ PSXSys \in Seq(BaseEntry) /\ Len(PSXSys) = 3
  /\ HDDLOAD \in Seq(BaseEntry) /\ Len(HDDLOAD) = 3
  /\ SysResource \in Seq(BaseEntry) /\ Len(SysResource) = 2
<1>1. Exec("R") \in Folders /\ Exec("I") \in Folders /\ "SYS-CONF" \in Folders
  BY DEF Folders, Letters
<1> USE <1>1, CardEntry DEF Sources, SystemNames
<1>2. ROM100J \in Seq(BaseEntry) /\ Len(ROM100J) = 1
  BY DEF ROM100J
<1>3. ROM101J \in Seq(BaseEntry) /\ Len(ROM101J) = 1
  BY DEF ROM101J
<1>4. PS2Sys \in Seq(BaseEntry) /\ Len(PS2Sys) = 2
  BY DEF PS2Sys
<1>5. DEXSys \in Seq(BaseEntry) /\ Len(DEXSys) = 1
  BY DEF DEXSys
<1>6. PSXSys \in Seq(BaseEntry) /\ Len(PSXSys) = 3
  BY DEF PSXSys
<1>7. HDDLOAD \in Seq(BaseEntry) /\ Len(HDDLOAD) = 3
  BY DEF HDDLOAD
<1>8. SysResource \in Seq(BaseEntry) /\ Len(SysResource) = 2
  BY DEF SysResource
<1> QED
  BY <1>2, <1>3, <1>4, <1>5, <1>6, <1>7, <1>8

LEMMA AliasTable == ASSUME NEW n \in 1 .. 8 PROVE FileAlias[n] \in Alias
  BY DEF FileAlias, Alias, Letters, SystemNames

LEMMA AliasesType == ASSUME NEW c, NEW m PROVE Aliases(c, m) \in Seq(Alias)
<1> DEFINE Get(n) == IF Wanted(c, m, FileAlias[n]) THEN <<FileAlias[n]>> ELSE <<>>
<1>1. \A n \in 1 .. 8 : Get(n) \in Seq(Alias)
  BY AliasTable
<1>2. Aliases(c, m) = Get(1) \o Get(2) \o Get(3) \o Get(4) \o Get(5) \o Get(6) \o Get(7) \o Get(8)
  BY DEF Aliases
<1> HIDE DEF Get
<1>3. Get(1) \o Get(2) \o Get(3) \o Get(4) \in Seq(Alias)
  BY <1>1
<1> QED
  BY <1>1, <1>2, <1>3

LEMMA Region == ASSUME NEW c \in Consoles PROVE GetMGFolderLetter(c.region) \in Letters
  BY ConsolesAssumption DEF GetMGFolderLetter, Letters

LEMMA Letter == ASSUME NEW c \in Consoles, NEW m PROVE MGLetter(c, m) \in Letters
  BY Region DEF MGLetter, Letters

(* The name of the system program for every ROM version from v1.00 on. *)
LEMMA SysExecName == ASSUME NEW c \in Consoles PROVE SysExecFile(c.rom) \in SystemNames
<1> DEFINE rom == c.rom
           q == (rom + 16) \div 16
<1>1. rom \in Int /\ rom >= 256
  BY ConsolesAssumption
<1>2. CASE rom >= 304 \/ rom \in {256, 257}
  BY <1>2 DEF SysExecFile, SystemNames
<1>3. CASE rom < 304 /\ rom \notin {256, 257}
  <2>1. q \in Int /\ (rom + 16) % 16 \in 0 .. 15 /\ rom + 16 = 16 * q + ((rom + 16) % 16)
    BY <1>1
  <2> HIDE DEF q
  <2>2. q \in 17 .. 19
    BY <1>1, <1>3, <2>1
  <2>3. q * 16 \in {272, 288, 304}
    BY <2>2
  <2> QED
    BY <1>3, <2>3 DEF q, SysExecFile, SystemNames
<1> QED
  BY <1>1, <1>2, <1>3

LEMMA SystemFilesType ==
  ASSUME NEW c \in Consoles, NEW m
  PROVE  /\ SystemFiles(c, m) \in Seq(BaseEntry)
         /\ Len(SystemFiles(c, m)) =
              CASE TargetSystemType(c, m) = "PSX" -> Len(PSXSys)
                [] TargetSystemType(c, m) = "DEX" -> Len(DEXSys)
                [] OTHER -> Len(PS2Sys) + Len(Aliases(c, m))
<1>1. CASE TargetSystemType(c, m) = "PSX"
  BY <1>1, CardTables DEF SystemFiles
<1>2. CASE TargetSystemType(c, m) = "DEX"
  BY <1>2, CardTables DEF SystemFiles
<1>3. CASE TargetSystemType(c, m) \notin {"PSX", "DEX"}
  <2> DEFINE own == [PS2Sys EXCEPT ![1].path.name = SysExecFile(c.rom)]
             other == [n \in DOMAIN Aliases(c, m) |->
                        Card(PS2Sys[1].src, Aliases(c, m)[n][1], Aliases(c, m)[n][2])]
  <2>1. own \in Seq(BaseEntry) /\ Len(own) = Len(PS2Sys)
    <3>0. Len(PS2Sys) = 2 /\ DOMAIN PS2Sys = 1 .. 2 /\ \A n \in 1 .. 2 : PS2Sys[n] \in BaseEntry
      BY CardTables, Elements
    <3>1. SysExecFile(c.rom) \in Names
      BY SysExecName DEF Names
    <3>2. PS2Sys[1] \in BaseEntry
      BY <3>0
    <3>3. [PS2Sys[1] EXCEPT !.path.name = SysExecFile(c.rom)] \in BaseEntry
      BY <3>1, <3>2 DEF BaseEntry
    <3>4. own = [n \in 1 .. 2 |-> IF n = 1 THEN [PS2Sys[1] EXCEPT !.path.name = SysExecFile(c.rom)] ELSE PS2Sys[n]]
      BY <3>0, CardTables
    <3>5. own \in [1 .. 2 -> BaseEntry]
      BY <3>0, <3>3, <3>4
    <3> HIDE DEF own
    <3> QED
      BY <3>0, <3>5, Sequence
  <2>2. other \in Seq(BaseEntry) /\ Len(other) = Len(Aliases(c, m))
    <3>1. PS2Sys[1].src = "FMCB.XLF" /\ "FMCB.XLF" \in Sources
      BY DEF PS2Sys, Card, Entry, Sources
    <3>2. ASSUME NEW a \in Alias PROVE Card(PS2Sys[1].src, a[1], a[2]) \in BaseEntry
      <4>1. a[1] \in Folders /\ a[2] \in SystemNames
        BY DEF Alias, Folders
      <4> QED
        BY <3>1, <4>1, CardEntry
    <3>3. other \in [1 .. Len(Aliases(c, m)) -> BaseEntry] /\ Len(Aliases(c, m)) \in Nat
      BY <3>2, AliasesType, Elements
    <3> HIDE DEF other
    <3> QED
      BY <3>3, Sequence
  <2>3. SystemFiles(c, m) = own \o other
    BY <1>3 DEF SystemFiles
  <2> HIDE DEF own, other
  <2>4. SystemFiles(c, m) \in Seq(BaseEntry) /\ Len(SystemFiles(c, m)) = Len(PS2Sys) + Len(Aliases(c, m))
    <3> HIDE <1>3
    <3> QED
      BY <2>1, <2>2, <2>3, Join
  <2> QED
    BY <1>3, <2>4
<1> QED
  BY <1>1, <1>2, <1>3

LEMMA JapaneseFilesType ==
  ASSUME NEW c \in Consoles, NEW m
  PROVE  /\ JapaneseFiles(c, m) \in Seq(BaseEntry)
         /\ Len(JapaneseFiles(c, m)) =
              (IF EveryJapanese(c, m) THEN Len(ROM100J) + Len(ROM101J)
               ELSE IF MGLetter(c, m) = "I" /\ c.rom = 256 THEN Len(ROM100J)
               ELSE IF MGLetter(c, m) = "I" /\ c.rom = 257 THEN Len(ROM101J) ELSE 0)
              + (IF EveryJapanese(c, m) \/ (MGLetter(c, m) = "I" /\ c.rom <= 288) THEN Len(HDDLOAD) ELSE 0)
<1> DEFINE japan == MGLetter(c, m) = "I"
           every == EveryJapanese(c, m)
           first == IF every \/ (japan /\ c.rom = 256) THEN ROM100J ELSE <<>>
           second == IF every \/ (japan /\ c.rom = 257) THEN ROM101J ELSE <<>>
           third == IF every \/ (japan /\ c.rom <= 288) THEN HDDLOAD ELSE <<>>
<1>1. /\ first \in Seq(BaseEntry) /\ Len(first) = IF every \/ (japan /\ c.rom = 256) THEN Len(ROM100J) ELSE 0
      /\ second \in Seq(BaseEntry) /\ Len(second) = IF every \/ (japan /\ c.rom = 257) THEN Len(ROM101J) ELSE 0
      /\ third \in Seq(BaseEntry) /\ Len(third) = IF every \/ (japan /\ c.rom <= 288) THEN Len(HDDLOAD) ELSE 0
  <2>1. /\ <<>> \in Seq(BaseEntry) /\ Len(<<>>) = 0
        /\ ROM100J \in Seq(BaseEntry) /\ ROM101J \in Seq(BaseEntry) /\ HDDLOAD \in Seq(BaseEntry)
    BY CardTables
  <2> QED
    BY <2>1
<1>2. JapaneseFiles(c, m) = first \o second \o third
  BY DEF JapaneseFiles
<1>3. c.rom \in Nat
  BY ConsolesAssumption
<1> HIDE DEF first, second, third
<1>4. /\ JapaneseFiles(c, m) \in Seq(BaseEntry)
      /\ Len(JapaneseFiles(c, m)) = Len(first) + Len(second) + Len(third)
  <2>1. first \o second \in Seq(BaseEntry) /\ Len(first \o second) = Len(first) + Len(second)
    BY <1>1, Join
  <2> QED
    BY <1>1, <1>2, <2>1, Join
<1> QED
  BY <1>1, <1>3, <1>4, CardTables

LEMMA ResourcesType ==
  ASSUME NEW letter \in Letters, NEW folder \in Letters
  PROVE  Resources(letter, folder) \in Seq(BaseEntry) /\ Len(Resources(letter, folder)) = Len(SysResource)
<1>1. <<Exec(folder)>> \in Seq(Folders)
  BY SystemFolder
<1>2. "B" \o letter \o "ICON.SYS" \in Sources
  BY DEF Sources
<1>3. ASSUME NEW e \in BaseEntry
      PROVE  [e EXCEPT !.path.dir = <<Exec(folder)>>,
                       !.src = IF e.src = "ICON.SYS" THEN "B" \o letter \o "ICON.SYS" ELSE e.src] \in BaseEntry
  BY <1>1, <1>2 DEF BaseEntry
<1>4. Len(SysResource) = 2 /\ DOMAIN SysResource = 1 .. 2 /\ \A n \in 1 .. 2 : SysResource[n] \in BaseEntry
  BY CardTables, Elements
<1>5. Resources(letter, folder) \in [1 .. 2 -> BaseEntry]
  BY <1>3, <1>4 DEF Resources
<1> QED
  BY <1>4, <1>5, Sequence

LEMMA ResourceFilesType ==
  ASSUME NEW c \in Consoles, NEW m
  PROVE  /\ ResourceFiles(c, m) \in Seq(BaseEntry)
         /\ Len(ResourceFiles(c, m)) = Len(SysResource) + (IF EveryRegion(m) THEN 3 * Len(SysResource) ELSE 0)
<1>1. /\ {"I", "E", "A", "C", "R"} \subseteq Letters
      /\ MGLetter(c, m) \in Letters
  BY Letter DEF Letters
<1>2. CASE EveryRegion(m)
  <2>1. /\ Resources("I", "I") \in Seq(BaseEntry) /\ Len(Resources("I", "I")) = 2
        /\ Resources("E", "E") \in Seq(BaseEntry) /\ Len(Resources("E", "E")) = 2
        /\ Resources("A", "A") \in Seq(BaseEntry) /\ Len(Resources("A", "A")) = 2
        /\ Resources("C", "C") \in Seq(BaseEntry) /\ Len(Resources("C", "C")) = 2
    BY <1>1, ResourcesType, CardTables
  <2>2. ASSUME NEW s1 \in Seq(BaseEntry), NEW s2 \in Seq(BaseEntry),
               NEW s3 \in Seq(BaseEntry), NEW s4 \in Seq(BaseEntry),
               Len(s1) = 2, Len(s2) = 2, Len(s3) = 2, Len(s4) = 2
        PROVE  s1 \o s2 \o s3 \o s4 \in Seq(BaseEntry) /\ Len(s1 \o s2 \o s3 \o s4) = 8
    <3>1. s1 \o s2 \in Seq(BaseEntry) /\ Len(s1 \o s2) = 4
      <4>1. s1 \o s2 \in Seq(BaseEntry) /\ Len(s1 \o s2) = Len(s1) + Len(s2)
        BY Join
      <4> QED
        BY <2>2, <4>1
    <3>2. s1 \o s2 \o s3 \in Seq(BaseEntry) /\ Len(s1 \o s2 \o s3) = 6
      BY <2>2, <3>1, Join
    <3> QED
      BY <2>2, <3>2, Join
  <2>3. ResourceFiles(c, m) \in Seq(BaseEntry) /\ Len(ResourceFiles(c, m)) = 8
    BY <1>2, <2>1, <2>2 DEF ResourceFiles
  <2>4. Len(SysResource) = 2
    BY CardTables
  <2> QED
    BY <1>2, <2>3, <2>4
<1>3. CASE ~EveryRegion(m)
  BY <1>1, <1>3, ResourcesType, CardTables DEF ResourceFiles
<1> QED
  BY <1>2, <1>3

(* An alias is only wanted in a mode the menu offers a PS2. *)
Sensible(c, m) ==
  "CROSS_MODEL" \in m \/ "CROSS_REG" \in m => c.type = "PS2" /\ "CROSS_PSX" \notin m

LEMMA NoAliases ==
  ASSUME NEW c, NEW m, "CROSS_MODEL" \notin m, "CROSS_REG" \notin m
  PROVE  Aliases(c, m) = <<>>
<1>1. \A n \in 1 .. 8 : ~Wanted(c, m, FileAlias[n])
  BY DEF Wanted
<1> QED
  BY <1>1 DEF Aliases

LEMMA CardList ==
  ASSUME NEW c \in Consoles, NEW m, Sensible(c, m)
  PROVE  /\ FileCopyList(c, m) \in Seq(BaseEntry)
         /\ Len(FileCopyList(c, m)) = NumFiles(c, m)
         /\ NumFiles(c, m) \in Nat
<1> DEFINE type == CASE TargetSystemType(c, m) = "PSX" -> Len(PSXSys)
                     [] TargetSystemType(c, m) = "DEX" -> Len(DEXSys)
                     [] OTHER -> Len(PS2Sys)
<1>1. SystemFiles(c, m) \in Seq(BaseEntry) /\ Len(SystemFiles(c, m)) = type + Len(Aliases(c, m))
  <2>1. CASE TargetSystemType(c, m) \in {"PSX", "DEX"}
    <3>1. "CROSS_MODEL" \notin m /\ "CROSS_REG" \notin m
      BY <2>1 DEF Sensible, TargetSystemType
    <3>2. Len(Aliases(c, m)) = 0
      BY <3>1, NoAliases
    <3>3. type \in Nat
      BY CardTables
    <3> QED
      BY <2>1, <3>2, <3>3, SystemFilesType
  <2>2. CASE TargetSystemType(c, m) \notin {"PSX", "DEX"}
    BY <2>2, SystemFilesType
  <2> QED
    BY <2>1, <2>2
<1>2. type \in Nat /\ Len(Aliases(c, m)) \in Nat
  BY CardTables, AliasesType
<1>3. FileCopyList(c, m) = (SystemFiles(c, m) \o JapaneseFiles(c, m)) \o ResourceFiles(c, m)
  BY DEF FileCopyList
<1>4. /\ FileCopyList(c, m) \in Seq(BaseEntry)
      /\ Len(FileCopyList(c, m)) =
           type + Len(Aliases(c, m)) + Len(JapaneseFiles(c, m)) + Len(ResourceFiles(c, m))
  <2> HIDE DEF type
  <2>1. JapaneseFiles(c, m) \in Seq(BaseEntry) /\ ResourceFiles(c, m) \in Seq(BaseEntry)
    BY JapaneseFilesType, ResourceFilesType
  <2>2. /\ SystemFiles(c, m) \o JapaneseFiles(c, m) \in Seq(BaseEntry)
        /\ Len(SystemFiles(c, m) \o JapaneseFiles(c, m)) = type + Len(Aliases(c, m)) + Len(JapaneseFiles(c, m))
    BY <1>1, <2>1, Join
  <2> QED
    BY <1>3, <2>1, <2>2, Join
<1>5. NumFiles(c, m) = type + Len(Aliases(c, m)) + Len(JapaneseFiles(c, m)) + Len(ResourceFiles(c, m))
  <2> DEFINE first == IF EveryJapanese(c, m) THEN Len(ROM100J) + Len(ROM101J)
                      ELSE IF MGLetter(c, m) = "I" /\ c.rom = 256 THEN Len(ROM100J)
                      ELSE IF MGLetter(c, m) = "I" /\ c.rom = 257 THEN Len(ROM101J) ELSE 0
             every == IF EveryRegion(m) THEN 3 * Len(SysResource) ELSE 0
             drivers == IF EveryJapanese(c, m) \/ (MGLetter(c, m) = "I" /\ c.rom <= 288) THEN Len(HDDLOAD) ELSE 0
  <2>1. NumFiles(c, m) = Len(SysResource) + type + first + every + drivers + Len(Aliases(c, m))
    BY DEF NumFiles
  <2>2. Len(JapaneseFiles(c, m)) = first + drivers /\ Len(ResourceFiles(c, m)) = Len(SysResource) + every
    BY JapaneseFilesType, ResourceFilesType
  <2>3. first \in Nat /\ every \in Nat /\ drivers \in Nat /\ Len(SysResource) \in Nat
    BY CardTables
  <2> HIDE DEF type, first, every, drivers
  <2> QED
    BY <1>2, <2>1, <2>2, <2>3
<1> QED
  BY <1>2, <1>4, <1>5, Elements

LEMMA HDDTables ==
  /\ PS2SysHDD \in Seq(BaseEntry) /\ Len(PS2SysHDD) = 3
  /\ DEXSysHDD \in Seq(BaseEntry) /\ Len(DEXSysHDD) = 2
  /\ HDDBase \in Seq(BaseEntry)
<1>1. /\ "__mbr" \in Parts /\ "__system" \in Parts /\ "__sysconf" \in Parts
      /\ "" \in Names /\ "osdmain.elf" \in Names /\ "endvdpl.irx" \in Names /\ "fsck.elf" \in Names
  BY DEF Parts, Names, SystemNames
<1>2. /\ "MBR.XLF" \in Sources /\ "FHDB.XLF" \in Sources /\ "ENDVDPL.XRX" \in Sources
      /\ "FSCK.XLF" \in Sources
  BY DEF Sources
<1>3. /\ <<>> \in Seq(Folders) /\ <<"osd">> \in Seq(Folders) /\ <<"FMCB">> \in Seq(Folders)
      /\ <<"fsck">> \in Seq(Folders) /\ <<"fsck", "lang">> \in Seq(Folders)
  BY DEF Folders
<1>4. MBR \in BaseEntry
  BY <1>1, <1>2, <1>3, EntryType DEF MBR
<1>5. FHDB \in BaseEntry
  BY <1>1, <1>2, <1>3, EntryType DEF FHDB
<1>6. Entry("ENDVDPL.XRX", Path("__sysconf", <<"FMCB">>, "endvdpl.irx")) \in BaseEntry
  BY <1>1, <1>2, <1>3, EntryType
<1>7. PS2SysHDD \in Seq(BaseEntry) /\ Len(PS2SysHDD) = 3
  BY <1>4, <1>5, <1>6 DEF PS2SysHDD
<1>8. DEXSysHDD \in Seq(BaseEntry) /\ Len(DEXSysHDD) = 2
  BY <1>4, <1>5 DEF DEXSysHDD
<1>9. HDDBase \in Seq(BaseEntry)
  <2> DEFINE texts == [n \in DOMAIN Texts |-> Entry(Texts[n], Path("__system", <<"fsck", "lang">>, Texts[n]))]
  <2>1. DOMAIN Texts = 1 .. 17
    BY DEF Texts
  <2>2. \A n \in 1 .. 17 : Texts[n] \in ToSet(Texts)
    BY <2>1 DEF ToSet
  <2>3. \A n \in 1 .. 17 : Texts[n] \in Sources /\ Texts[n] \in Names
    BY <2>2 DEF Sources, Names
  <2>4. texts \in [1 .. 17 -> BaseEntry]
    BY <1>1, <1>3, <2>1, <2>3, EntryType
  <2>5. Entry("FSCK.XLF", Path("__system", <<"fsck">>, "fsck.elf")) \in BaseEntry
    BY <1>1, <1>2, <1>3, EntryType
  <2>6. HDDBase = << Entry("FSCK.XLF", Path("__system", <<"fsck">>, "fsck.elf")) >> \o texts
    BY DEF HDDBase
  <2> HIDE DEF texts
  <2>7. texts \in Seq(BaseEntry)
    BY <2>4, Sequence
  <2> QED
    BY <2>5, <2>6, <2>7
<1> QED
  BY <1>7, <1>8, <1>9

LEMMA HDDList ==
  ASSUME NEW c
  PROVE  /\ FileCopyListHDD(c) \in Seq(BaseEntry)
         /\ Len(FileCopyListHDD(c)) = NumFilesHDD(c)
         /\ NumFilesHDD(c) \in Nat
<1> DEFINE type == IF c.type = "DEX" THEN DEXSysHDD ELSE PS2SysHDD
<1>1. type \in Seq(BaseEntry) /\ HDDBase \in Seq(BaseEntry)
  BY HDDTables
<1>2. FileCopyListHDD(c) = type \o HDDBase /\ NumFilesHDD(c) = Len(HDDBase) + Len(type)
  BY DEF FileCopyListHDD, NumFilesHDD
<1> HIDE DEF type
<1> QED
  BY <1>1, <1>2

LEMMA StatsType ==
  ASSUME NEW s \in Seq(BaseEntry), NEW letter \in Letters, NEW absent
  PROVE  /\ GetAllBaseFileStats(letter, s, absent) \in Seq(BaseEntry)
         /\ Len(GetAllBaseFileStats(letter, s, absent)) = Len(s)
<1>1. <<Exec(letter)>> \in Seq(Folders)
  BY SystemFolder
<1>2. ASSUME NEW e \in BaseEntry, NEW src
      PROVE  [e EXCEPT !.path.dir = IF @ = <<Exec("R")>> THEN <<Exec(letter)>> ELSE @,
                       !.skip = @ \/ src \in absent] \in BaseEntry
  BY <1>1 DEF BaseEntry
<1>3. Len(s) \in Nat /\ DOMAIN s = 1 .. Len(s) /\ \A n \in 1 .. Len(s) : s[n] \in BaseEntry
  BY Elements
<1>4. GetAllBaseFileStats(letter, s, absent) \in [1 .. Len(s) -> BaseEntry]
  BY <1>2, <1>3 DEF GetAllBaseFileStats
<1> QED
  BY <1>3, <1>4, Sequence

-----------------------------------------------------------------------------
(* The invariant.  What the tables and the payload make of the list, and   *)
(* what the flags of the menu are, is in the first parts; what the steps   *)
(* do to the disk is in the others.                                        *)
ListEntry ==
  BaseEntry
  \cup [src : STRING, isdir : BOOLEAN, skip : BOOLEAN,
        path : [part : {"mc", "__common", "__sysconf", "__system"}, dir : Seq(STRING), name : STRING]]
NewFiles == {list[n].path : n \in {n \in DOMAIN list : ~list[n].skip /\ ~list[n].isdir}}

Inputs ==
  /\ console \in Consoles /\ target \in {"mc", "hdd"} /\ payload \in Payloads
  /\ Sensible(console, mode)
Ended == {"space", "free", "returned", "crashed"}
Typed ==
  /\ pc \in {"count", "fill", "stats", "cleanup", "folders", "copy", "boot"} \cup PayloadFolders \cup Ended
  /\ list \in Seq(ListEntry) /\ num \in Nat /\ i \in Nat \ {0}
  /\ pc \in {"count", "fill", "stats"} => list \in Seq(BaseEntry)

(* Each installation has folders of its own, and an error ends it. *)
OnCourse ==
  /\ pc \in PayloadFolders => (pc = "MC" <=> target = "mc")
  /\ pc \notin Ended => result = "ok"
  /\ result \in {"ok", "error"}

(* At "fill" the list is not there yet, but what it will be is counted. *)
Counted ==
  IF pc = "fill" THEN num = IF target = "mc" THEN NumFiles(console, mode) ELSE NumFilesHDD(console)
  ELSE num = Len(list) \/ (num = Len(list) + 1 /\ result = "error")

(* The configuration of the user is not on the list unless it is marked. *)
Spared(s) == \A n \in DOMAIN s : s[n].path \in ConfigFiles => s[n].skip
Sparing == "SKIP_CNF" \in mode /\ ~BroughtUnmarked
Marks == Sparing /\ result = "ok" => Spared(list)

(* Until the copy starts nothing is written and no entry passed. *)
NotStarted ==
  pc \in {"count", "fill", "stats", "space", "cleanup", "folders"} \cup PayloadFolders =>
    new = {} /\ unseen = {} /\ i = 1

(* The name that was remembered is that of the partition that is mounted. *)
MountKnown == mounted = current

(* Whatever the copy passed is on the disk, or reported to be. *)
IsIn(e, there, files) == IF e.isdir THEN Folder(e.path.part, e.path.dir) \in there ELSE e.path \in files
IsThere(e) == IsIn(e, folders, new \cup unseen)
Passed ==
  pc \in {"copy", "boot"} \/ boot = "on" => \A n \in DOMAIN list : n < i => list[n].skip \/ IsThere(list[n])
BootedAtTheEnd ==
  /\ boot = "on" => pc = "returned"
  /\ pc = "boot" \/ boot = "on" => i > Len(list)

(* The files of ConfigFiles are of folders no cleanup and no copy touches. *)
OldKept == Sparing => \E p \in ConfigFiles : p \in old

IInv ==
  /\ Inputs /\ Typed /\ OnCourse /\ Counted /\ Marks /\ NotStarted /\ MountKnown
  /\ new \cup unseen \subseteq NewFiles /\ Passed /\ BootedAtTheEnd /\ OldKept

LEMMA InitInv == Init => IInv
<1> SUFFICES ASSUME Init PROVE IInv
  OBVIOUS
<1>1. console \in Consoles /\ target \in {"mc", "hdd"} /\ payload \in Payloads
  BY DEF Init
<1>2. PICK m \in Modes[target], kept \in SUBSET {"SKIP_CNF"} : (kept # {} => old # {}) /\ mode = m \cup kept
  BY DEF Init
<1>3. /\ m \in {{}, {"CROSS_MODEL"}, {"CROSS_REG"}, {"CROSS_PSX", "SKIP_CLEANUP"}}
      /\ m # {} => console.type = "PS2"
  <2>1. CASE target = "mc"
    BY <2>1 DEF Modes
  <2>2. CASE target = "hdd"
    BY <2>2 DEF Modes
  <2> QED
    BY <1>1, <2>1, <2>2
<1>4. Sensible(console, mode)
  BY <1>2, <1>3 DEF Sensible
<1>5. /\ Typed /\ OnCourse /\ Counted /\ Marks /\ NotStarted /\ MountKnown /\ new \cup unseen \subseteq NewFiles
      /\ Passed /\ BootedAtTheEnd
  BY DEF Init, Typed, OnCourse, PayloadFolders, Ended, Counted, Marks, Spared, NotStarted, MountKnown, Passed,
         BootedAtTheEnd
<1>6. OldKept
  <2> SUFFICES ASSUME "SKIP_CNF" \in mode PROVE \E p \in ConfigFiles : p \in old
    BY DEF OldKept, Sparing
  <2>1. old = Earlier[target]
    BY <1>2, <1>3 DEF Init
  <2>2. CASE target = "mc"
    BY <2>1, <2>2 DEF Earlier, ConfigFiles
  <2>3. CASE target = "hdd"
    BY <2>1, <2>3 DEF Earlier, ConfigFiles
  <2> QED
    BY <1>1, <2>2, <2>3
<1> QED
  BY <1>1, <1>4, <1>5, <1>6 DEF IInv, Inputs

(* A step that leaves the inputs alone keeps what is said of them. *)
LEMMA SameInputs == ASSUME Inputs, UNCHANGED inputVars PROVE Inputs' /\ (Sparing' <=> Sparing)
  BY DEF Inputs, inputVars, Sensible, Sparing, BroughtUnmarked

(* The files of the tables are none of the user's, and no folders. *)
LEMMA BaseFacts ==
  ASSUME NEW e \in BaseEntry
  PROVE  e \in ListEntry /\ e.path \notin ConfigFiles /\ e.isdir = FALSE
<1>1. e.path.name \in Names /\ e.isdir = FALSE
  BY DEF BaseEntry
<1>2. "FREEMCB.CNF" \notin Names /\ "FREEHDB.CNF" \notin Names
  BY DEF Names, SystemNames, ToSet, Texts
<1>3. \A p \in ConfigFiles : p.name \in {"FREEMCB.CNF", "FREEHDB.CNF"}
  BY DEF ConfigFiles, Path
<1> QED
  BY <1>1, <1>2, <1>3 DEF ListEntry

LEMMA MBRIsFile == ASSUME NEW e \in ListEntry, e.path = MBR.path PROVE ~e.isdir
<1>1. e.path.part = "__mbr"
  <2>1. MBR.path.part = "__mbr"
    BY DEF MBR, Entry, Path
  <2> QED
    BY <2>1
<1>2. CASE e \in BaseEntry
  BY <1>2, BaseFacts
<1>3. CASE e \notin BaseEntry
  BY <1>1, <1>3 DEF ListEntry
<1> QED
  BY <1>2, <1>3

LEMMA CountStep == IInv /\ Count => IInv'
<1> SUFFICES ASSUME IInv, Count PROVE IInv'
  OBVIOUS
<1> USE DEF Count, inputVars, diskVars, fileVars
<1>1. Inputs' /\ (Sparing' <=> Sparing)
  BY SameInputs DEF IInv
<1>2. NumFiles(console, mode) \in Nat /\ NumFilesHDD(console) \in Nat
  BY CardList, HDDList DEF IInv, Inputs
<1>3. Typed' /\ OnCourse'
  BY <1>2 DEF IInv, Typed, OnCourse, Ended, PayloadFolders, Fault
<1>4. Counted'
  BY DEF IInv, Counted, OnCourse, Ended, Fault
<1>5. Marks' /\ MountKnown' /\ OldKept' /\ (new \cup unseen \subseteq NewFiles)'
  BY <1>1 DEF IInv, Marks, MountKnown, OldKept, NewFiles
<1>6. NotStarted' /\ BootedAtTheEnd' /\ Passed'
  BY DEF IInv, NotStarted, BootedAtTheEnd, Passed, Fault, PayloadFolders, Ending
<1> QED
  BY <1>1, <1>3, <1>4, <1>5, <1>6 DEF IInv

LEMMA FillStep == IInv /\ Fill => IInv'
<1> SUFFICES ASSUME IInv, Fill PROVE IInv'
  OBVIOUS
<1> USE DEF Fill, inputVars, diskVars, fileVars
<1>1. Inputs' /\ (Sparing' <=> Sparing)
  BY SameInputs DEF IInv
<1>2. list' \in Seq(BaseEntry) /\ num' = Len(list')
  <2>1. CASE target = "mc"
    BY <2>1, CardList DEF IInv, Inputs, Counted
  <2>2. CASE target # "mc"
    BY <2>2, HDDList DEF IInv, Inputs, Counted
  <2> QED
    BY <2>1, <2>2
<1>3. \A n \in DOMAIN list' : list'[n] \in BaseEntry
  BY <1>2, Elements
<1>4. Typed' /\ OnCourse'
  <2>1. list' \in Seq(ListEntry)
    BY <1>2 DEF ListEntry
  <2> QED
    BY <1>2, <2>1 DEF IInv, Typed, OnCourse, Ended, PayloadFolders
<1>5. Counted'
  BY <1>2 DEF Counted
<1>6. Marks'
  BY <1>3, BaseFacts DEF Marks, Spared, ConfigFiles
<1>7. MountKnown' /\ OldKept' /\ NotStarted' /\ BootedAtTheEnd' /\ Passed' /\ (new \cup unseen \subseteq NewFiles)'
  BY <1>1 DEF IInv, MountKnown, OldKept, NotStarted, BootedAtTheEnd, Passed
<1> QED
  BY <1>1, <1>4, <1>5, <1>6, <1>7 DEF IInv

LEMMA StatsStep == IInv /\ Stats => IInv'
<1> SUFFICES ASSUME IInv, Stats PROVE IInv'
  OBVIOUS
<1> USE DEF Stats, inputVars, diskVars, fileVars
<1>1. Inputs' /\ (Sparing' <=> Sparing)
  BY SameInputs DEF IInv
<1>2. list' \in Seq(BaseEntry) /\ Len(list') = Len(list)
  BY Letter, StatsType DEF IInv, Inputs, Typed
<1>3. \A n \in DOMAIN list' : list'[n] \in BaseEntry
  BY <1>2, Elements
<1>4. Typed' /\ OnCourse'
  <2>1. list' \in Seq(ListEntry)
    BY <1>2 DEF ListEntry
  <2>2. target = "mc" \/ target = "hdd"
    BY DEF IInv, Inputs
  <2> QED
    BY <1>2, <2>1, <2>2 DEF IInv, Typed, OnCourse, Ended, PayloadFolders
<1>5. Counted'
  BY <1>2 DEF IInv, Counted, OnCourse, Ended
<1>6. Marks'
  BY <1>3, BaseFacts DEF Marks, Spared, ConfigFiles
<1>7. MountKnown' /\ OldKept' /\ NotStarted' /\ BootedAtTheEnd' /\ Passed' /\ (new \cup unseen \subseteq NewFiles)'
  BY <1>1 DEF IInv, MountKnown, OldKept, NotStarted, BootedAtTheEnd, Passed
<1> QED
  BY <1>1, <1>4, <1>5, <1>6, <1>7 DEF IInv

LEMMA ListJoin ==
  ASSUME NEW a \in Seq(ListEntry), NEW b \in Seq(ListEntry)
  PROVE  /\ a \o b \in Seq(ListEntry) /\ Len(a \o b) = Len(a) + Len(b)
         /\ \A n \in DOMAIN (a \o b) :
              \/ n \in DOMAIN a /\ (a \o b)[n] = a[n]
              \/ n - Len(a) \in DOMAIN b /\ (a \o b)[n] = b[n - Len(a)]
  OBVIOUS

LEMMA SparedJoin ==
  ASSUME NEW a \in Seq(ListEntry), NEW b \in Seq(ListEntry), Spared(a), Spared(b)
  PROVE  Spared(a \o b)
  BY ListJoin DEF Spared

(* What the payload adds: the entries of its folders, each below its       *)
(* destination, those that are marked with nothing else changed.           *)
LEMMA MarkedType ==
  ASSUME NEW s \in Seq(PayloadEntry), NEW cnf
  PROVE  /\ Marked(s, cnf) \in Seq(ListEntry) /\ Len(Marked(s, cnf)) = Len(s)
         /\ \A n \in 1 .. Len(s) :
              /\ Marked(s, cnf)[n].path = s[n].path /\ Marked(s, cnf)[n].isdir = s[n].isdir
              /\ Marked(s, cnf)[n].skip = ("SKIP_CNF" \in mode /\ s[n].path.name = cnf)
<1>1. Len(s) \in Nat /\ DOMAIN s = 1 .. Len(s) /\ \A n \in 1 .. Len(s) : s[n] \in PayloadEntry
  BY Elements
<1>2. ASSUME NEW e \in PayloadEntry, NEW b \in BOOLEAN
      PROVE  /\ [e EXCEPT !.skip = b] \in ListEntry
             /\ [e EXCEPT !.skip = b].path = e.path /\ [e EXCEPT !.skip = b].isdir = e.isdir
             /\ [e EXCEPT !.skip = b].skip = b
  BY DEF PayloadEntry, ListEntry
<1>3. Marked(s, cnf) \in [1 .. Len(s) -> ListEntry]
  BY <1>1, <1>2 DEF Marked
<1>4. Marked(s, cnf) \in Seq(ListEntry) /\ Len(Marked(s, cnf)) = Len(s)
  BY <1>1, <1>3, Sequence
<1>5. ASSUME NEW n \in 1 .. Len(s)
      PROVE  Marked(s, cnf)[n] = [s[n] EXCEPT !.skip = "SKIP_CNF" \in mode /\ s[n].path.name = cnf]
  BY <1>1 DEF Marked
<1>6. ASSUME NEW n \in 1 .. Len(s)
      PROVE  /\ Marked(s, cnf)[n].path = s[n].path /\ Marked(s, cnf)[n].isdir = s[n].isdir
             /\ Marked(s, cnf)[n].skip = ("SKIP_CNF" \in mode /\ s[n].path.name = cnf)
  <2> DEFINE b == "SKIP_CNF" \in mode /\ s[n].path.name = cnf
  <2>1. b \in BOOLEAN /\ s[n] \in PayloadEntry /\ Marked(s, cnf)[n] = [s[n] EXCEPT !.skip = b]
    BY <1>1, <1>5
  <2> HIDE DEF b
  <2>2. Marked(s, cnf)[n].path = s[n].path /\ Marked(s, cnf)[n].isdir = s[n].isdir /\ Marked(s, cnf)[n].skip = b
    BY <1>2, <2>1
  <2> QED
    BY <2>2 DEF b
<1> QED
  BY <1>4, <1>6

LEMMA MarkedFields ==
  \A cnf : \A s \in Seq(PayloadEntry) : \A n \in 1 .. Len(s) :
    /\ Marked(s, cnf)[n].path = s[n].path /\ Marked(s, cnf)[n].isdir = s[n].isdir
    /\ Marked(s, cnf)[n].skip = ("SKIP_CNF" \in mode /\ s[n].path.name = cnf)
  BY MarkedType

LEMMA PayloadFacts ==
  ASSUME Inputs, NEW f \in PayloadFolders
  PROVE  payload[f] \in Seq(PayloadEntry) /\ payload[f] \in Seq(ListEntry) /\ IsListing(payload[f], Destination(f))
<1>1. payload[f] \in Seq(PayloadEntry) /\ IsListing(payload[f], Destination(f))
  BY PayloadsAssumption DEF Inputs
<1>2. PayloadEntry \subseteq ListEntry
  BY DEF ListEntry, PayloadEntry
<1>3. ASSUME NEW s \in Seq(PayloadEntry) PROVE s \in Seq(ListEntry)
  BY <1>2
<1> QED
  BY <1>1, <1>3

(* Of the folders of the payload, only those that are marked hold a file   *)
(* of ConfigFiles, and HDD/HDD_OSD/sysconf when it is BroughtUnmarked.     *)
LEMMA OthersSpared ==
  ASSUME Inputs, NEW f \in PayloadFolders \ {"MC", "HDD/CFG_FHDB"}, target = "hdd", ~BroughtUnmarked
  PROVE  Spared(payload[f])
<1> SUFFICES ASSUME NEW n \in DOMAIN payload[f], payload[f][n].path \in ConfigFiles PROVE FALSE
  BY DEF Spared
<1> DEFINE path == payload[f][n].path
           root == Destination(f)
<1>1. /\ path \in {Path("mc", <<"SYS-CONF">>, "FREEMCB.CNF"), Path("__sysconf", <<"FMCB">>, "FREEHDB.CNF")}
      /\ path.part = root.part /\ IsPrefix(root.dir, path.dir)
  BY PayloadFacts DEF IsListing, ConfigFiles
<1>2. path.part \in {"mc", "__sysconf"} /\ (path.part = "__sysconf" => path.dir = <<"FMCB">>)
  BY <1>1 DEF Path
<1>3. CASE f \in {"HDD/APPS", "HDD/HDD_OSD/system"}
  <2>1. root.part \in {"__common", "__system"}
    BY <1>3 DEF Destination, Folder
  <2> QED
    BY <1>1, <1>2, <2>1
<1>4. CASE f = "HDD/CFG_PS2BBL"
  <2>1. root.part = "__sysconf" /\ root.dir = <<"PS2BBL">>
    BY <1>4 DEF Destination, Folder
  <2>2. IsPrefix(<<"PS2BBL">>, <<"FMCB">>)
    BY <1>1, <1>2, <2>1
  <2>3. <<"PS2BBL">>[1] = <<"FMCB">>[1]
    BY <2>2 DEF IsPrefix
  <2> QED
    BY <2>3
<1>5. CASE f = "HDD/HDD_OSD/sysconf"
  BY <1>5 DEF BroughtUnmarked
<1> QED
  BY <1>3, <1>4, <1>5 DEF PayloadFolders

LEMMA MarkedSpared ==
  ASSUME Inputs, "SKIP_CNF" \in mode
  PROVE  Spared(Marked(payload["MC"], "FREEMCB.CNF")) /\ Spared(Marked(payload["HDD/CFG_FHDB"], "FREEHDB.CNF"))
<1>1. ASSUME NEW f \in PayloadFolders, NEW cnf,
             \A p \in ConfigFiles : p.part = Destination(f).part => p.name = cnf
      PROVE  Spared(Marked(payload[f], cnf))
  <2> SUFFICES ASSUME NEW n \in DOMAIN Marked(payload[f], cnf), Marked(payload[f], cnf)[n].path \in ConfigFiles
               PROVE  Marked(payload[f], cnf)[n].skip
    BY DEF Spared
  <2>1. payload[f] \in Seq(PayloadEntry) /\ IsListing(payload[f], Destination(f))
    BY PayloadFacts
  <2>2. n \in 1 .. Len(payload[f]) /\ n \in DOMAIN payload[f]
    BY <2>1, MarkedType, Elements
  <2>3. payload[f][n].path \in ConfigFiles
    BY <2>1, <2>2, MarkedType
  <2>4. payload[f][n].path.part = Destination(f).part
    BY <2>1, <2>2 DEF IsListing
  <2> QED
    BY <1>1, <2>1, <2>2, <2>3, <2>4, MarkedType
<1>2. \A p \in ConfigFiles : p.part = Destination("MC").part => p.name = "FREEMCB.CNF"
  BY DEF ConfigFiles, Path, Destination, Folder
<1>3. \A p \in ConfigFiles : p.part = Destination("HDD/CFG_FHDB").part => p.name = "FREEHDB.CNF"
  BY DEF ConfigFiles, Path, Destination, Folder
<1> QED
  BY <1>1, <1>2, <1>3 DEF PayloadFolders

LEMMA AddedFacts ==
  ASSUME Inputs, NEW f \in PayloadFolders, f = "MC" <=> target = "mc"
  PROVE  /\ Added(f) \in Seq(ListEntry) /\ Len(Added(f)) = Len(payload[f]) /\ Len(payload[f]) \in Nat
         /\ Sparing => Spared(Added(f))
<1>1. payload[f] \in Seq(PayloadEntry) /\ payload[f] \in Seq(ListEntry) /\ Len(payload[f]) \in Nat
  BY PayloadFacts, Elements
<1>2. CASE f \in {"MC", "HDD/CFG_FHDB"}
  <2>1. PICK cnf : Added(f) = Marked(payload[f], cnf)
    BY <1>2 DEF Added
  <2>2. Sparing => Spared(Added(f))
    BY <1>2, MarkedSpared DEF Added, Sparing
  <2> QED
    BY <1>1, <2>1, <2>2, MarkedType
<1>3. CASE f \notin {"MC", "HDD/CFG_FHDB"}
  <2>1. Added(f) = payload[f] /\ target = "hdd"
    BY <1>3 DEF Added, Inputs
  <2> QED
    BY <1>1, <1>3, <2>1, OthersSpared DEF Sparing
<1> QED
  BY <1>2, <1>3

LEMMA Cut ==
  ASSUME NEW s \in Seq(ListEntry), NEW n \in 0 .. Len(s)
  PROVE  SubSeq(s, 1, n) \in Seq(ListEntry) /\ Len(SubSeq(s, 1, n)) = n
  OBVIOUS

LEMMA AddStep == IInv /\ AddDirContents => IInv'
<1> SUFFICES ASSUME IInv, AddDirContents PROVE IInv'
  OBVIOUS
<1> USE DEF inputVars, diskVars, fileVars
<1>1. Inputs' /\ (Sparing' <=> Sparing)
  BY SameInputs DEF IInv, AddDirContents
<1>2. /\ pc \in PayloadFolders /\ (pc = "MC" <=> target = "mc") /\ result = "ok"
      /\ list \in Seq(ListEntry) /\ num = Len(list) /\ Len(list) \in Nat
      /\ payload[pc] \in Seq(ListEntry) /\ Len(payload[pc]) \in Nat
  <2>1. pc \in PayloadFolders /\ pc \notin Ended /\ pc # "fill"
    BY DEF AddDirContents, PayloadFolders, Ended
  <2>2. result = "ok" /\ (pc = "MC" <=> target = "mc")
    BY <2>1 DEF IInv, OnCourse
  <2>3. list \in Seq(ListEntry) /\ num = Len(list)
    BY <2>1, <2>2 DEF IInv, Typed, Counted
  <2> QED
    BY <2>1, <2>2, <2>3, PayloadFacts, Elements DEF IInv
<1>3. UNCHANGED <<i, inputVars, diskVars>>
  BY DEF AddDirContents
<1>4. ASSUME pc' \in PayloadFolders \cup {"space", "cleanup", "returned"}
      PROVE  NotStarted' /\ BootedAtTheEnd' /\ Passed' /\ MountKnown' /\ OldKept' /\ (new \cup unseen \subseteq NewFiles)'
  <2>1. new = {} /\ unseen = {} /\ i = 1 /\ boot # "on"
    BY <1>2 DEF IInv, NotStarted, BootedAtTheEnd, PayloadFolders
  <2> QED
    BY <1>1, <1>3, <1>4, <2>1 DEF IInv, NotStarted, BootedAtTheEnd, Passed, MountKnown, OldKept, PayloadFolders
<1>5. CASE list' = list \o Added(pc) /\ num' = num + Len(payload[pc]) /\ pc' = After(pc) /\ result' = result
  <2>1. /\ Added(pc) \in Seq(ListEntry) /\ Len(Added(pc)) = Len(payload[pc]) /\ Len(payload[pc]) \in Nat
        /\ Sparing => Spared(Added(pc))
    BY <1>2, AddedFacts DEF IInv
  <2>2. list' \in Seq(ListEntry) /\ Len(list') = Len(list) + Len(payload[pc])
    BY <1>2, <1>5, <2>1, ListJoin
  <2>3. /\ pc' \in PayloadFolders \cup {"space", "cleanup"} /\ pc' \notin {"count", "fill", "stats"}
        /\ pc' \in PayloadFolders => (pc' = "MC" <=> target = "mc")
    BY <1>2, <1>5 DEF After, PayloadFolders
  <2>4. num' = Len(list') /\ num' \in Nat
    BY <1>2, <1>5, <2>1, <2>2
  <2>5. Typed' /\ OnCourse' /\ Counted'
    BY <1>2, <1>3, <1>5, <2>2, <2>3, <2>4 DEF IInv, Typed, OnCourse, Counted, Ended
  <2>6. Marks'
    <3>1. Sparing => Spared(list \o Added(pc))
      BY <1>2, <2>1, SparedJoin DEF IInv, Marks
    <3> QED
      BY <1>1, <1>5, <3>1 DEF Marks, Spared, ConfigFiles
  <2> QED
    BY <1>1, <1>4, <2>3, <2>5, <2>6 DEF IInv
<1>6. CASE /\ result' = "error" /\ pc' = IF target = "mc" THEN "space" ELSE "returned"
           /\ \E n \in 0 .. Len(payload[pc]) :
                /\ list' = list \o SubSeq(payload[pc], 1, n)
                /\ num' = num + n \/ num' = num + n + 1
  <2>1. PICK n \in 0 .. Len(payload[pc]) :
          list' = list \o SubSeq(payload[pc], 1, n) /\ (num' = num + n \/ num' = num + n + 1)
    BY <1>6
  <2>2. list' \in Seq(ListEntry) /\ Len(list') = Len(list) + n
    BY <1>2, <2>1, Cut, ListJoin
  <2>3. (num' = Len(list') \/ num' = Len(list') + 1) /\ num' \in Nat
    BY <1>2, <2>1, <2>2
  <2>4. pc' \in {"space", "returned"}
    BY <1>6
  <2>5. Typed' /\ OnCourse' /\ Counted' /\ Marks'
    BY <1>3, <1>6, <2>2, <2>3, <2>4 DEF IInv, Typed, OnCourse, Counted, Marks, Ended, PayloadFolders
  <2> QED
    BY <1>1, <1>4, <2>4, <2>5 DEF IInv
<1> QED
  BY <1>5, <1>6 DEF AddDirContents

LEMMA SpaceStep == IInv /\ Space => IInv'
<1> SUFFICES ASSUME IInv, Space PROVE IInv'
  OBVIOUS
<1> USE DEF Space, inputVars, diskVars, fileVars
<1>1. Inputs' /\ (Sparing' <=> Sparing)
  BY SameInputs DEF IInv
<1>2. Typed' /\ OnCourse' /\ Counted'
  BY DEF IInv, Typed, OnCourse, Counted, Ended, Ending, PayloadFolders
<1>3. Marks' /\ MountKnown' /\ OldKept' /\ (new \cup unseen \subseteq NewFiles)'
  BY <1>1 DEF IInv, Marks, MountKnown, OldKept, NewFiles
<1>4. NotStarted' /\ BootedAtTheEnd' /\ Passed'
  BY DEF IInv, NotStarted, BootedAtTheEnd, Passed, PayloadFolders, Ending
<1> QED
  BY <1>1, <1>2, <1>3, <1>4 DEF IInv

LEMMA FreeStep == IInv /\ FreeNames => IInv'
<1> SUFFICES ASSUME IInv, FreeNames PROVE IInv'
  OBVIOUS
<1> USE DEF FreeNames, inputVars, diskVars, fileVars
<1>1. Inputs' /\ (Sparing' <=> Sparing)
  BY SameInputs DEF IInv
<1>2. Typed' /\ OnCourse' /\ Counted'
  BY DEF IInv, Typed, OnCourse, Counted, Ended, PayloadFolders
<1>3. Marks' /\ MountKnown' /\ OldKept' /\ (new \cup unseen \subseteq NewFiles)'
  BY <1>1 DEF IInv, Marks, MountKnown, OldKept, NewFiles
<1>4. boot # "on"
  BY DEF IInv, BootedAtTheEnd
<1>5. NotStarted' /\ BootedAtTheEnd' /\ Passed'
  BY <1>4 DEF IInv, NotStarted, BootedAtTheEnd, Passed, PayloadFolders
<1> QED
  BY <1>1, <1>2, <1>3, <1>5 DEF IInv

(* The cleanup knows nothing of the folders SYS-CONF and FMCB. *)
LEMMA CleanupSpares ==
  ASSUME NEW files, NEW p \in ConfigFiles, p \in files
  PROVE  p \in CleanedCard(files) /\ p \in CleanedSystem(files)
<1>1. p.dir \in {<<"SYS-CONF">>, <<"FMCB">>} /\ p.name \in {"FREEMCB.CNF", "FREEHDB.CNF"}
  BY DEF ConfigFiles, Path
<1>2. p.dir \notin ToSet(SystemFolders)
  <2>1. ToSet(SystemFolders) = {<<Exec("I")>>, <<Exec("E")>>, <<Exec("A")>>, <<Exec("C")>>}
    BY DEF ToSet, SystemFolders
  <2> QED
    BY <1>1, <2>1 DEF Exec
<1>3. p # FHDB.path /\ p.dir # <<"fsck", "lang">> /\ p.name # "fsck.elf"
  BY <1>1 DEF FHDB, Entry, Path
<1> QED
  BY <1>2, <1>3 DEF CleanedCard, CleanedSystem

LEMMA CleanupStep == IInv /\ Cleanup => IInv'
<1> SUFFICES ASSUME IInv, Cleanup PROVE IInv'
  OBVIOUS
<1> USE DEF inputVars, diskVars, fileVars
<1>1. /\ UNCHANGED <<num, list, i, inputVars, mounted, current, new, unseen, boot>> /\ pc = "cleanup"
      /\ (pc' = "folders" /\ result' = result) \/ (pc' = "returned" /\ result' = "error")
  BY DEF Cleanup, CleanupMC, CleanupHDD
<1>2. \A p \in ConfigFiles : p \in old => p \in old'
  <2> SUFFICES ASSUME NEW p \in ConfigFiles, p \in old PROVE p \in old'
    OBVIOUS
  <2>1. p \in CleanedCard(old) /\ p \in CleanedSystem(old)
    BY CleanupSpares
  <2> QED
    BY <2>1 DEF Cleanup, CleanupMC, CleanupHDD
<1>3. Inputs' /\ (Sparing' <=> Sparing)
  BY <1>1, SameInputs DEF IInv
<1>4. Typed' /\ OnCourse' /\ Counted'
  BY <1>1 DEF IInv, Typed, OnCourse, Counted, Ended, Ending, PayloadFolders
<1>5. Marks' /\ MountKnown' /\ (new \cup unseen \subseteq NewFiles)'
  BY <1>1, <1>3 DEF IInv, Marks, MountKnown, NewFiles
<1>6. NotStarted' /\ BootedAtTheEnd' /\ Passed'
  BY <1>1 DEF IInv, NotStarted, BootedAtTheEnd, Passed, PayloadFolders, Ending
<1>7. OldKept'
  BY <1>1, <1>2, <1>3 DEF IInv, OldKept, ConfigFiles
<1> QED
  BY <1>3, <1>4, <1>5, <1>6, <1>7 DEF IInv

LEMMA FoldersStep == IInv /\ CreateBasicFolders => IInv'
<1> SUFFICES ASSUME IInv, CreateBasicFolders PROVE IInv'
  OBVIOUS
<1> USE DEF inputVars, diskVars, fileVars
<1>1. /\ UNCHANGED <<num, list, i, inputVars, mounted, current, old, new, unseen, boot>> /\ pc = "folders"
      /\ (pc' = "copy" /\ result' = result) \/ (pc' = Ending /\ result' = "error")
  BY DEF CreateBasicFolders
<1>2. Inputs' /\ (Sparing' <=> Sparing)
  BY <1>1, SameInputs DEF IInv
<1>3. Typed' /\ OnCourse' /\ Counted'
  BY <1>1 DEF IInv, Typed, OnCourse, Counted, Ended, Ending, PayloadFolders
<1>4. Marks' /\ MountKnown' /\ OldKept' /\ (new \cup unseen \subseteq NewFiles)'
  BY <1>1, <1>2 DEF IInv, Marks, MountKnown, OldKept, NewFiles
<1>5. NotStarted' /\ BootedAtTheEnd'
  BY <1>1 DEF IInv, NotStarted, BootedAtTheEnd, PayloadFolders, Ending
<1>6. Passed'
  <2>1. i = 1 /\ boot # "on"
    BY <1>1 DEF IInv, NotStarted, BootedAtTheEnd
  <2>2. \A n \in DOMAIN list : ~(n < 1)
    BY Elements DEF IInv, Typed
  <2> QED
    BY <1>1, <2>1, <2>2 DEF Passed
<1> QED
  BY <1>2, <1>3, <1>4, <1>5, <1>6 DEF IInv

-----------------------------------------------------------------------------
(* Under MountKnown an entry goes where its path says. *)
LEMMA PlaceIsPath == ASSUME MountKnown, NEW e \in ListEntry PROVE Place(e.path) = e.path
  BY DEF MountKnown, Place, IsMounted, ListEntry, BaseEntry

LEMMA MountKeeps == ASSUME MountKnown, NEW path, Mount(path) PROVE MountKnown'
  BY DEF MountKnown, Mount

LEMMA ThisEntry ==
  ASSUME IInv, Copying
  PROVE  /\ i \in DOMAIN list /\ This \in ListEntry /\ DOMAIN list \subseteq Nat
         /\ boot # "on" /\ pc = "copy" /\ Place(This.path) = This.path
<1>1. list \in Seq(ListEntry) /\ i \in Nat \ {0} /\ i <= Len(list) /\ MountKnown
  BY DEF IInv, Typed, Copying
<1>2. i \in DOMAIN list /\ This \in ListEntry /\ DOMAIN list \subseteq Nat
  BY <1>1, Elements DEF This
<1> QED
  BY <1>1, <1>2, PlaceIsPath DEF IInv, BootedAtTheEnd, Copying

(* An entry is passed: nothing that was there is lost, and it is there. *)
LEMMA PassedOne ==
  ASSUME IInv, Copying, Advance, folders \subseteq folders', new \cup unseen \subseteq (new \cup unseen)',
         This.skip \/ IsIn(This, folders', (new \cup unseen)')
  PROVE  Passed'
<1>1. \A n \in DOMAIN list : n < i => list[n].skip \/ IsThere(list[n])
  BY DEF IInv, Passed, Copying
<1>2. \A e : IsThere(e) => IsIn(e, folders', (new \cup unseen)')
  BY DEF IsThere, IsIn
<1>3. list' = list /\ i' = i + 1 /\ i \in Nat /\ DOMAIN list \subseteq Nat
  BY ThisEntry DEF Advance, IInv, Typed
<1>4. ASSUME NEW n \in DOMAIN list, n < i + 1 PROVE n < i \/ n = i
  BY <1>3, <1>4
<1>5. \A n \in DOMAIN list' : n < i' => list'[n].skip \/ IsIn(list'[n], folders', (new \cup unseen)')
  BY <1>1, <1>2, <1>3, <1>4 DEF This
<1> QED
  BY <1>5 DEF Passed, IsThere

(* The parts of the invariant that an entry that is passed cannot disturb. *)
LEMMA AdvanceKeeps ==
  ASSUME IInv, Copying, Advance
  PROVE  /\ Inputs' /\ (Sparing' <=> Sparing) /\ Typed' /\ OnCourse' /\ Counted' /\ Marks'
         /\ NotStarted' /\ BootedAtTheEnd'
<1> USE DEF Advance, inputVars, diskVars, fileVars, Copying
<1>1. Inputs' /\ (Sparing' <=> Sparing)
  BY SameInputs DEF IInv
<1>2. Typed' /\ OnCourse' /\ Counted'
  BY DEF IInv, Typed, OnCourse, Counted, Ended, Ending, PayloadFolders
<1>3. Marks'
  BY <1>1 DEF IInv, Marks
<1>4. NotStarted' /\ BootedAtTheEnd'
  BY DEF IInv, NotStarted, BootedAtTheEnd, PayloadFolders, Ending
<1> QED
  BY <1>1, <1>2, <1>3, <1>4

(* An error ends the copy. *)
LEMMA FailKeeps ==
  ASSUME IInv, Copying, Fail
  PROVE  /\ Inputs' /\ (Sparing' <=> Sparing) /\ Typed' /\ OnCourse' /\ Counted' /\ Marks'
         /\ NotStarted' /\ MountKnown' /\ Passed' /\ BootedAtTheEnd'
<1> USE DEF Fail, inputVars, diskVars, fileVars, Copying
<1>1. Inputs' /\ (Sparing' <=> Sparing)
  BY SameInputs DEF IInv
<1>2. Typed' /\ OnCourse' /\ Counted'
  BY DEF IInv, Typed, OnCourse, Counted, Ended, Ending, PayloadFolders
<1>3. Marks' /\ MountKnown'
  BY <1>1 DEF IInv, Marks, MountKnown
<1>4. NotStarted' /\ BootedAtTheEnd' /\ Passed'
  BY DEF IInv, NotStarted, BootedAtTheEnd, Passed, PayloadFolders, Ending
<1> QED
  BY <1>1, <1>2, <1>3, <1>4

LEMMA SkipStep == IInv /\ Skip => IInv'
<1> SUFFICES ASSUME IInv, Skip PROVE IInv'
  OBVIOUS
<1>1. /\ Copying /\ This.skip /\ Advance
      /\ UNCHANGED <<faults, mounted, current, folders, old, new, unseen>>
  BY DEF Skip, fileVars
<1>2. Passed'
  BY <1>1, PassedOne
<1>3. MountKnown' /\ OldKept' /\ (new \cup unseen \subseteq NewFiles)'
  BY <1>1, AdvanceKeeps DEF IInv, MountKnown, OldKept, NewFiles, Advance, inputVars
<1> QED
  BY <1>1, <1>2, <1>3, AdvanceKeeps DEF IInv

LEMMA MakeFolderStep == IInv /\ MakeFolder => IInv'
<1> SUFFICES ASSUME IInv, MakeFolder PROVE IInv'
  OBVIOUS
<1>1. Copying /\ ~This.skip /\ This.isdir /\ UNCHANGED <<old, new, unseen>>
  BY DEF MakeFolder
<1>2. Place(This.path) = This.path
  BY <1>1, ThisEntry
<1>3. CASE Mount(This.path) /\ folders' = folders \cup {Folder(This.path.part, This.path.dir)} /\ Advance
  <2>1. IsIn(This, folders', (new \cup unseen)')
    BY <1>1, <1>3 DEF IsIn
  <2>2. Passed'
    BY <1>1, <1>3, <2>1, PassedOne
  <2>3. MountKnown'
    BY <1>3, MountKeeps DEF IInv
  <2>4. OldKept' /\ (new \cup unseen \subseteq NewFiles)'
    BY <1>1, <1>3, AdvanceKeeps DEF IInv, OldKept, NewFiles, Advance, inputVars
  <2> QED
    BY <1>1, <1>3, <2>2, <2>3, <2>4, AdvanceKeeps DEF IInv
<1>4. CASE Fail
  <2>1. OldKept' /\ (new \cup unseen \subseteq NewFiles)'
    BY <1>1, <1>4, FailKeeps DEF IInv, OldKept, NewFiles, Fail, inputVars
  <2> QED
    BY <1>1, <1>4, <2>1, FailKeeps DEF IInv
<1> QED
  BY <1>2, <1>3, <1>4 DEF MakeFolder

(* A file that is written, or that a call nobody looks at left unwritten,  *)
(* is one of the list, and none of the user's configuration.               *)
LEMMA WriteKeeps ==
  ASSUME IInv, Copying, ~This.skip, ~This.isdir, Advance, folders' = folders, MountKnown',
         Written(This.path) \/ WrittenUnseen(This.path)
  PROVE  IInv'
<1> DEFINE p == This.path
<1>1. /\ new \cup unseen \subseteq (new \cup unseen)' /\ p \in (new \cup unseen)'
      /\ (new \cup unseen)' \subseteq (new \cup unseen) \cup {p} /\ old' = old \ {p}
  BY DEF Written, WrittenUnseen
<1>2. i \in DOMAIN list /\ list' = list /\ p \in NewFiles
  BY ThisEntry DEF Advance, NewFiles, This
<1>3. Passed'
  BY <1>1, PassedOne DEF IsIn
<1>4. (new \cup unseen \subseteq NewFiles)'
  BY <1>1, <1>2 DEF IInv, NewFiles
<1>5. OldKept'
  <2>1. result = "ok"
    BY DEF IInv, OnCourse, Copying, Ended
  <2>2. Sparing => p \notin ConfigFiles
    BY <1>2, <2>1 DEF IInv, Marks, Spared, This
  <2> QED
    BY <1>1, <2>2, AdvanceKeeps DEF IInv, OldKept, ConfigFiles
<1> QED
  BY <1>3, <1>4, <1>5, AdvanceKeeps DEF IInv

LEMMA CopyMBRStep == IInv /\ CopyMBR => IInv'
<1> SUFFICES ASSUME IInv, CopyMBR PROVE IInv'
  OBVIOUS
<1>1. Copying /\ ~This.skip /\ This.path = MBR.path /\ UNCHANGED folders
  BY DEF CopyMBR
<1>2. ~This.isdir
  BY <1>1, ThisEntry, MBRIsFile
<1>3. CASE Advance /\ (Written(MBR.path) \/ WrittenUnseen(MBR.path)) /\ UNCHANGED <<mounted, current>>
  <2>1. MountKnown'
    BY <1>3 DEF IInv, MountKnown
  <2> QED
    BY <1>1, <1>2, <1>3, <2>1, WriteKeeps
<1>4. CASE Fail /\ UNCHANGED <<old, new, unseen>>
  <2>1. OldKept' /\ (new \cup unseen \subseteq NewFiles)'
    BY <1>1, <1>4, FailKeeps DEF IInv, OldKept, NewFiles, Fail, inputVars
  <2> QED
    BY <1>1, <1>4, <2>1, FailKeeps DEF IInv
<1> QED
  BY <1>3, <1>4 DEF CopyMBR

LEMMA CopyFileStep == IInv /\ CopyFile => IInv'
<1> SUFFICES ASSUME IInv, CopyFile PROVE IInv'
  OBVIOUS
<1> DEFINE p == This.path
<1>1. Copying /\ ~This.skip /\ ~This.isdir /\ UNCHANGED folders
  BY DEF CopyFile
<1>2. i \in DOMAIN list /\ Place(p) = p
  BY <1>1, ThisEntry
<1>3. CASE Mount(p) /\ Advance /\ (Written(p) \/ WrittenUnseen(p))
  <2>1. MountKnown'
    BY <1>3, MountKeeps DEF IInv
  <2> QED
    BY <1>1, <1>3, <2>1, WriteKeeps
<1>4. CASE Fail /\ unseen' = unseen /\ (UNCHANGED <<old, new>> \/ (old' = old \ {p} /\ new' = new \ {p}))
  <2>1. OldKept'
    <3>1. result = "ok"
      BY <1>1 DEF IInv, OnCourse, Copying, Ended
    <3>2. Sparing => p \notin ConfigFiles
      BY <1>1, <1>2, <3>1 DEF IInv, Marks, Spared, This
    <3> QED
      BY <1>1, <1>4, <3>2, FailKeeps DEF IInv, OldKept, ConfigFiles
  <2>2. (new \cup unseen \subseteq NewFiles)'
    BY <1>4 DEF IInv, NewFiles, Fail
  <2> QED
    BY <1>1, <1>4, <2>1, <2>2, FailKeeps DEF IInv
<1> QED
  BY <1>2, <1>3, <1>4 DEF CopyFile

LEMMA DoneStep == IInv /\ CopyDone => IInv'
<1> SUFFICES ASSUME IInv, CopyDone PROVE IInv'
  OBVIOUS
<1> USE DEF CopyDone, inputVars, diskVars, fileVars
<1>1. Inputs' /\ (Sparing' <=> Sparing)
  BY SameInputs DEF IInv
<1>2. Typed' /\ OnCourse' /\ Counted'
  BY DEF IInv, Typed, OnCourse, Counted, Ended, Ending, PayloadFolders
<1>3. Marks' /\ MountKnown' /\ OldKept' /\ (new \cup unseen \subseteq NewFiles)'
  BY <1>1 DEF IInv, Marks, MountKnown, OldKept, NewFiles
<1>4. NotStarted' /\ BootedAtTheEnd'
  BY DEF IInv, NotStarted, BootedAtTheEnd, PayloadFolders, Ending
<1>5. Passed'
  BY DEF IInv, Passed, IsThere
<1> QED
  BY <1>1, <1>2, <1>3, <1>4, <1>5 DEF IInv

LEMMA BootStep == IInv /\ EnableHDDBooting => IInv'
<1> SUFFICES ASSUME IInv, EnableHDDBooting PROVE IInv'
  OBVIOUS
<1> USE DEF EnableHDDBooting, inputVars, fileVars
<1>1. Inputs' /\ (Sparing' <=> Sparing)
  BY SameInputs DEF IInv
<1>2. Typed' /\ OnCourse' /\ Counted'
  BY DEF IInv, Typed, OnCourse, Counted, Ended, Ending, PayloadFolders
<1>3. Marks' /\ MountKnown' /\ OldKept' /\ (new \cup unseen \subseteq NewFiles)'
  BY <1>1 DEF IInv, Marks, MountKnown, OldKept, NewFiles
<1>4. NotStarted' /\ BootedAtTheEnd'
  BY DEF IInv, NotStarted, BootedAtTheEnd, PayloadFolders, Ending
<1>5. Passed'
  BY DEF IInv, Passed, IsThere
<1> QED
  BY <1>1, <1>2, <1>3, <1>4, <1>5 DEF IInv

LEMMA StutterStep == IInv /\ UNCHANGED vars => IInv'
<1> SUFFICES ASSUME IInv, UNCHANGED vars PROVE IInv'
  OBVIOUS
<1> USE DEF vars, inputVars, diskVars, fileVars
<1>1. Inputs' /\ (Sparing' <=> Sparing)
  BY SameInputs DEF IInv
<1>2. Typed' /\ OnCourse' /\ Counted'
  BY DEF IInv, Typed, OnCourse, Counted, Ended, Ending, PayloadFolders
<1>3. Marks' /\ MountKnown' /\ OldKept' /\ (new \cup unseen \subseteq NewFiles)'
  BY <1>1 DEF IInv, Marks, MountKnown, OldKept, NewFiles
<1>4. NotStarted' /\ BootedAtTheEnd'
  BY DEF IInv, NotStarted, BootedAtTheEnd, PayloadFolders, Ending
<1>5. Passed'
  BY DEF IInv, Passed, IsThere
<1> QED
  BY <1>1, <1>2, <1>3, <1>4, <1>5 DEF IInv

LEMMA Invariance == Spec => []IInv
<1>1. IInv /\ [Next]_vars => IInv'
  BY CountStep, FillStep, StatsStep, AddStep, SpaceStep, FreeStep, CleanupStep, FoldersStep,
     SkipStep, MakeFolderStep, CopyMBRStep, CopyFileStep, DoneStep, BootStep, StutterStep DEF Next
<1> QED
  BY InitInv, <1>1, PTL DEF Spec

-----------------------------------------------------------------------------
(* The list has as many entries as the memory was counted for, in every    *)
(* mode of the menu, whatever the console and the payload: the count of    *)
(* PerformInstallation and the code that fills the list agree.  It is one  *)
(* short after a realloc that failed, and then no cleanup and no copy      *)
(* comes any more.                                                         *)
THEOREM ListCounted == Spec => []ListExact
<1>1. IInv => ListExact
  BY DEF IInv, Counted, OnCourse, Ended, ListExact
<1> QED
  BY <1>1, Invariance, PTL

(* No file is written to a place that is not on the list: where pfs0: is   *)
(* mounted is always what the remembered name says.                        *)
THEOREM PlacedRight == Spec => []RightPartition
<1>1. IInv => RightPartition
  BY DEF IInv, NewFiles, RightPartition
<1> QED
  BY <1>1, Invariance, PTL

(* Booting from the hard disk is switched on after each folder of the list *)
(* that is not marked was made and each file was written or reported to    *)
(* be, and after no error the code looks at.                               *)
THEOREM BootsComplete == Spec => []BootOnlyWhenComplete
<1>1. IInv => BootOnlyWhenComplete
  <2> SUFFICES ASSUME IInv, boot = "on", NEW n \in DOMAIN list, ~list[n].skip PROVE IsThere(list[n])
    BY DEF BootOnlyWhenComplete, AllThere, IsThere, IsIn
  <2>1. list \in Seq(ListEntry) /\ i \in Nat /\ i > Len(list)
    BY DEF IInv, Typed, BootedAtTheEnd
  <2>2. n < i
    BY <2>1, Elements
  <2> QED
    BY <2>2 DEF IInv, Passed
<1> QED
  BY <1>1, Invariance, PTL

(* With SKIP_CNF, and so with a configuration of the user to spare, that   *)
(* file outlives the cleanup and the copy, wherever they end and whatever  *)
(* the payload, unless HDD/HDD_OSD/sysconf brings one of its name.         *)
THEOREM UserConfigKept == Spec => []ConfigKept
<1>1. IInv => ConfigKept
  BY DEF IInv, OldKept, Sparing, ConfigKept
<1> QED
  BY <1>1, Invariance, PTL

-----------------------------------------------------------------------------
(* Where the entries go.  CreateBasicFolders knows nothing of the tables:  *)
(* Homes is what it makes on a card, and every table, with the letter of   *)
(* the region put in, keeps to it.  The entries of the payload keep to     *)
(* their destinations, or to a folder that is on the list before them.     *)
Homes(c, m) ==
  {<<"BOOT">>, <<"SYS-CONF">>}
  \cup IF EveryRegion(m) THEN {<<Exec("I")>>, <<Exec("E")>>, <<Exec("A")>>, <<Exec("C")>>}
       ELSE {<<Exec(MGLetter(c, m))>>}
Roots == {Folder(part, <<>>) : part \in {"mc", "__system", "__sysconf", "__common"}}
Made(c, t, m) == Roots \cup IF t = "mc" THEN {Folder("mc", d) : d \in Homes(c, m)} ELSE HDDFolders

Homed(s, made) ==
  \A n \in DOMAIN s :
    \/ s[n].path = MBR.path \/ Holder(s[n]) \in made
    \/ \E k \in 1 .. n - 1 : s[k].isdir /\ ~s[k].skip /\ Holder(s[n]) = Folder(s[k].path.part, s[k].path.dir)

(* The same before the letter of the region is put in. *)
HomedBase(c, t, m) ==
  {e \in BaseEntry :
     \/ e.path = MBR.path \/ Folder(e.path.part, e.path.dir) \in Made(c, t, m)
     \/ t = "mc" /\ e.path.part = "mc" /\ e.path.dir = <<Exec("R")>>}
Every(s, set) == \A n \in DOMAIN s : s[n] \in set

LEMMA HomedJoin ==
  ASSUME NEW a \in Seq(ListEntry), NEW b \in Seq(ListEntry), NEW made, Homed(a, made), Homed(b, made)
  PROVE  Homed(a \o b, made)
<1> DEFINE s == a \o b
<1> SUFFICES ASSUME NEW n \in DOMAIN s
             PROVE  \/ s[n].path = MBR.path \/ Holder(s[n]) \in made
                    \/ \E k \in 1 .. n - 1 :
                         s[k].isdir /\ ~s[k].skip /\ Holder(s[n]) = Folder(s[k].path.part, s[k].path.dir)
  BY DEF Homed
<1>1. /\ Len(a) \in Nat /\ Len(b) \in Nat /\ Len(s) = Len(a) + Len(b) /\ n \in 1 .. Len(s)
      /\ DOMAIN a = 1 .. Len(a) /\ DOMAIN b = 1 .. Len(b)
  OBVIOUS
<1>2. /\ \A k \in 1 .. Len(a) : s[k] = a[k]
      /\ \A k \in 1 .. Len(b) : s[Len(a) + k] = b[k]
  OBVIOUS
<1> HIDE DEF s
<1>3. CASE n <= Len(a)
  <2>1. n \in DOMAIN a /\ s[n] = a[n] /\ \A k \in 1 .. n - 1 : s[k] = a[k]
    BY <1>1, <1>2, <1>3
  <2> QED
    BY <2>1 DEF Homed
<1>4. CASE n > Len(a)
  <2> DEFINE j == n - Len(a)
  <2>1. j \in DOMAIN b /\ s[n] = b[j]
    <3>1. j \in 1 .. Len(b) /\ n = Len(a) + j
      BY <1>1, <1>4
    <3> QED
      BY <1>1, <1>2, <3>1
  <2>2. ASSUME NEW k \in 1 .. j - 1 PROVE Len(a) + k \in 1 .. n - 1 /\ s[Len(a) + k] = b[k]
    <3>1. k \in 1 .. Len(b) /\ Len(a) + k \in 1 .. n - 1
      BY <1>1, <1>4
    <3> QED
      BY <1>2, <3>1
  <2> HIDE DEF j
  <2> QED
    BY <2>1, <2>2 DEF Homed
<1> QED
  BY <1>1, <1>3, <1>4

LEMMA EveryJoin ==
  ASSUME NEW a \in Seq(BaseEntry), NEW b \in Seq(BaseEntry), NEW set, Every(a, set), Every(b, set)
  PROVE  a \o b \in Seq(BaseEntry) /\ Every(a \o b, set)
  BY DEF Every

LEMMA LetterHome == ASSUME NEW c \in Consoles, NEW m PROVE <<Exec(MGLetter(c, m))>> \in Homes(c, m)
  BY ConsolesAssumption DEF Homes, MGLetter, GetMGFolderLetter

LEMMA CardHome ==
  ASSUME NEW c, NEW m, NEW src \in Sources, NEW folder \in Folders, NEW name \in SystemNames,
         <<folder>> \in Homes(c, m) \/ folder = Exec("R")
  PROVE  Card(src, folder, name) \in HomedBase(c, "mc", m)
<1>1. Card(src, folder, name) \in BaseEntry
  BY CardEntry
<1>2. Card(src, folder, name).path.part = "mc" /\ Card(src, folder, name).path.dir = <<folder>>
  BY DEF Card, Entry, Path
<1> QED
  BY <1>1, <1>2 DEF HomedBase, Made

LEMMA TablesHomed ==
  ASSUME NEW c, NEW m
  PROVE  /\ Every(PS2Sys, HomedBase(c, "mc", m)) /\ Every(DEXSys, HomedBase(c, "mc", m))
         /\ Every(PSXSys, HomedBase(c, "mc", m))
         /\ <<Exec("I")>> \in Homes(c, m) =>
              /\ Every(ROM100J, HomedBase(c, "mc", m)) /\ Every(ROM101J, HomedBase(c, "mc", m))
              /\ Every(HDDLOAD, HomedBase(c, "mc", m))
<1>1. Exec("R") \in Folders /\ Exec("I") \in Folders /\ "SYS-CONF" \in Folders /\ <<"SYS-CONF">> \in Homes(c, m)
  BY DEF Folders, Letters, Homes
<1>2. Every(PS2Sys, HomedBase(c, "mc", m))
  <2>1. Card("FMCB.XLF", Exec("R"), "osdmain.elf") \in HomedBase(c, "mc", m)
    BY <1>1, CardHome DEF Sources, SystemNames
  <2>2. Card("ENDVDPL.XRX", "SYS-CONF", "endvdpl.irx") \in HomedBase(c, "mc", m)
    BY <1>1, CardHome DEF Sources, SystemNames
  <2> QED
    BY <2>1, <2>2 DEF PS2Sys, Every
<1>3. Every(DEXSys, HomedBase(c, "mc", m))
  <2>1. Card("FMCB.XLF", Exec("R"), "osdmain.elf") \in HomedBase(c, "mc", m)
    BY <1>1, CardHome DEF Sources, SystemNames
  <2> QED
    BY <2>1 DEF DEXSys, Every
<1>4. Every(PSXSys, HomedBase(c, "mc", m))
  <2>1. Card("XFMCB.XLF", Exec("R"), "xosdmain.elf") \in HomedBase(c, "mc", m)
    BY <1>1, CardHome DEF Sources, SystemNames
  <2>2. Card("XUDNL.XRX", Exec("R"), "xosdmain.irx") \in HomedBase(c, "mc", m)
    BY <1>1, CardHome DEF Sources, SystemNames
  <2>3. Card("XENDVDPL.XRX", Exec("R"), "xendvdpl.irx") \in HomedBase(c, "mc", m)
    BY <1>1, CardHome DEF Sources, SystemNames
  <2> QED
    BY <2>1, <2>2, <2>3 DEF PSXSys, Every
<1>5. ASSUME <<Exec("I")>> \in Homes(c, m)
      PROVE  /\ Every(ROM100J, HomedBase(c, "mc", m)) /\ Every(ROM101J, HomedBase(c, "mc", m))
             /\ Every(HDDLOAD, HomedBase(c, "mc", m))
  <2>1. Card("OSDSYS.XLF", Exec("I"), "osdsys.elf") \in HomedBase(c, "mc", m)
    BY <1>1, <1>5, CardHome DEF Sources, SystemNames
  <2>2. Card("OSD110.XLF", Exec("I"), "osd110.elf") \in HomedBase(c, "mc", m)
    BY <1>1, <1>5, CardHome DEF Sources, SystemNames
  <2>3. Card("DEV9.IRX", Exec("I"), "dev9.irx") \in HomedBase(c, "mc", m)
    BY <1>1, <1>5, CardHome DEF Sources, SystemNames
  <2>4. Card("ATAD.IRX", Exec("I"), "atad.irx") \in HomedBase(c, "mc", m)
    BY <1>1, <1>5, CardHome DEF Sources, SystemNames
  <2>5. Card("HDDLOAD.IRX", Exec("I"), "hddload.irx") \in HomedBase(c, "mc", m)
    BY <1>1, <1>5, CardHome DEF Sources, SystemNames
  <2> QED
    BY <2>1, <2>2, <2>3, <2>4, <2>5 DEF ROM100J, ROM101J, HDDLOAD, Every
<1> QED
  BY <1>2, <1>3, <1>4, <1>5

(* The names for other models are of the folder of the console, those for  *)
(* other regions of a folder that is made in a cross-region installation.  *)
LEMMA AliasHome ==
  ASSUME NEW c \in Consoles, NEW m, Sensible(c, m), NEW n \in 1 .. 8, Wanted(c, m, FileAlias[n])
  PROVE  <<FileAlias[n][1]>> \in Homes(c, m)
<1>1. FileAlias[n][1] \in {Exec("I"), Exec("E"), Exec("A"), Exec("C")}
  BY DEF FileAlias
<1>2. CASE "CROSS_MODEL" \in m
  <2>1. FileAlias[n][1] = Exec(MGLetter(c, m))
    BY <1>2 DEF Wanted, Sensible, SysExecFolder, MGLetter
  <2> QED
    BY <2>1, LetterHome
<1>3. CASE "CROSS_MODEL" \notin m
  <2>1. EveryRegion(m)
    BY <1>3 DEF Wanted, EveryRegion
  <2> QED
    BY <1>1, <2>1 DEF Homes
<1> QED
  BY <1>2, <1>3

LEMMA AliasesHomed ==
  ASSUME NEW c \in Consoles, NEW m, Sensible(c, m)
  PROVE  \A n \in DOMAIN Aliases(c, m) : <<Aliases(c, m)[n][1]>> \in Homes(c, m)
<1> DEFINE Get(n) == IF Wanted(c, m, FileAlias[n]) THEN <<FileAlias[n]>> ELSE <<>>
           home == {a \in Alias : <<a[1]>> \in Homes(c, m)}
<1>1. \A n \in 1 .. 8 : Get(n) \in Seq(home)
  <2>1. \A n \in 1 .. 8 : Wanted(c, m, FileAlias[n]) => FileAlias[n] \in home
    BY AliasHome, AliasTable
  <2> HIDE DEF home
  <2> QED
    BY <2>1
<1>2. Aliases(c, m) = Get(1) \o Get(2) \o Get(3) \o Get(4) \o Get(5) \o Get(6) \o Get(7) \o Get(8)
  BY DEF Aliases
<1> HIDE DEF Get, home
<1>3. Get(1) \o Get(2) \o Get(3) \o Get(4) \in Seq(home)
  BY <1>1
<1>4. Aliases(c, m) \in Seq(home)
  BY <1>1, <1>2, <1>3
<1>5. \A n \in DOMAIN Aliases(c, m) : Aliases(c, m)[n] \in home
  BY <1>4, Elements
<1> QED
  BY <1>5 DEF home

LEMMA SystemFilesHomed ==
  ASSUME NEW c \in Consoles, NEW m, Sensible(c, m)
  PROVE  Every(SystemFiles(c, m), HomedBase(c, "mc", m))
<1>1. CASE TargetSystemType(c, m) = "PSX"
  BY <1>1, TablesHomed DEF SystemFiles
<1>2. CASE TargetSystemType(c, m) = "DEX"
  BY <1>2, TablesHomed DEF SystemFiles
<1>3. CASE TargetSystemType(c, m) \notin {"PSX", "DEX"}
  <2> DEFINE own == [PS2Sys EXCEPT ![1].path.name = SysExecFile(c.rom)]
             other == [n \in DOMAIN Aliases(c, m) |->
                        Card(PS2Sys[1].src, Aliases(c, m)[n][1], Aliases(c, m)[n][2])]
  <2>1. own \in [1 .. 2 -> HomedBase(c, "mc", m)]
    <3>1. /\ Len(PS2Sys) = 2 /\ DOMAIN PS2Sys = 1 .. 2 /\ PS2Sys \in Seq(BaseEntry)
          /\ \A n \in 1 .. 2 : PS2Sys[n] \in BaseEntry
      BY CardTables, Elements
    <3>2. \A n \in 1 .. 2 : PS2Sys[n] \in HomedBase(c, "mc", m)
      BY <3>1, TablesHomed DEF Every
    <3>3. [PS2Sys[1] EXCEPT !.path.name = SysExecFile(c.rom)] \in HomedBase(c, "mc", m)
      <4>1. PS2Sys[1] \in BaseEntry /\ PS2Sys[1].path.part = "mc" /\ PS2Sys[1].path.dir = <<Exec("R")>>
        BY <3>1 DEF PS2Sys, Card, Entry, Path
      <4>2. SysExecFile(c.rom) \in Names
        BY SysExecName DEF Names
      <4>3. ASSUME NEW e \in BaseEntry, NEW name \in Names
            PROVE  /\ [e EXCEPT !.path.name = name] \in BaseEntry
                   /\ [e EXCEPT !.path.name = name].path.part = e.path.part
                   /\ [e EXCEPT !.path.name = name].path.dir = e.path.dir
        BY DEF BaseEntry
      <4> QED
        BY <4>1, <4>2, <4>3 DEF HomedBase
    <3>4. own = [n \in 1 .. 2 |-> IF n = 1 THEN [PS2Sys[1] EXCEPT !.path.name = SysExecFile(c.rom)] ELSE PS2Sys[n]]
      BY <3>1, CardTables
    <3> QED
      BY <3>2, <3>3, <3>4
  <2>3. own \in Seq(HomedBase(c, "mc", m))
    <3> HIDE DEF own
    <3> QED
      BY <2>1, Sequence
  <2>4. other \in Seq(HomedBase(c, "mc", m))
    <3>1. PS2Sys[1].src = "FMCB.XLF" /\ "FMCB.XLF" \in Sources
      BY DEF PS2Sys, Card, Entry, Sources
    <3>2. ASSUME NEW a \in Alias, <<a[1]>> \in Homes(c, m)
          PROVE  Card(PS2Sys[1].src, a[1], a[2]) \in HomedBase(c, "mc", m)
      <4>1. a[1] \in Folders /\ a[2] \in SystemNames
        BY DEF Alias, Folders
      <4> QED
        BY <3>1, <3>2, <4>1, CardHome
    <3>3. /\ Len(Aliases(c, m)) \in Nat /\ DOMAIN Aliases(c, m) = 1 .. Len(Aliases(c, m))
          /\ \A n \in 1 .. Len(Aliases(c, m)) : Aliases(c, m)[n] \in Alias
      BY AliasesType, Elements
    <3>4. other \in [1 .. Len(Aliases(c, m)) -> HomedBase(c, "mc", m)]
      BY <3>2, <3>3, AliasesHomed
    <3> HIDE DEF other
    <3> QED
      BY <3>3, <3>4, Sequence
  <2>5. SystemFiles(c, m) = own \o other
    BY <1>3 DEF SystemFiles
  <2> HIDE DEF own, other
  <2>6. SystemFiles(c, m) \in Seq(HomedBase(c, "mc", m))
    BY <2>3, <2>4, <2>5
  <2> QED
    BY <2>6, Elements DEF Every
<1> QED
  BY <1>1, <1>2, <1>3

LEMMA JapaneseFilesHomed ==
  ASSUME NEW c \in Consoles, NEW m
  PROVE  Every(JapaneseFiles(c, m), HomedBase(c, "mc", m))
<1>1. CASE EveryJapanese(c, m) \/ MGLetter(c, m) = "I"
  <2> DEFINE japan == MGLetter(c, m) = "I"
             every == EveryJapanese(c, m)
             first == IF every \/ (japan /\ c.rom = 256) THEN ROM100J ELSE <<>>
             second == IF every \/ (japan /\ c.rom = 257) THEN ROM101J ELSE <<>>
             third == IF every \/ (japan /\ c.rom <= 288) THEN HDDLOAD ELSE <<>>
  <2>1. <<Exec("I")>> \in Homes(c, m)
    BY <1>1, LetterHome DEF EveryJapanese, Homes
  <2>2. <<>> \in Seq(BaseEntry) /\ Every(<<>>, HomedBase(c, "mc", m))
    BY DEF Every
  <2>3. first \in Seq(BaseEntry) /\ Every(first, HomedBase(c, "mc", m))
    BY <2>1, <2>2, TablesHomed, CardTables
  <2>4. second \in Seq(BaseEntry) /\ Every(second, HomedBase(c, "mc", m))
    BY <2>1, <2>2, TablesHomed, CardTables
  <2>5. third \in Seq(BaseEntry) /\ Every(third, HomedBase(c, "mc", m))
    BY <2>1, <2>2, TablesHomed, CardTables
  <2>6. JapaneseFiles(c, m) = first \o second \o third
    BY DEF JapaneseFiles
  <2> HIDE DEF first, second, third
  <2>7. first \o second \in Seq(BaseEntry) /\ Every(first \o second, HomedBase(c, "mc", m))
    BY <2>3, <2>4, EveryJoin
  <2> QED
    BY <2>5, <2>6, <2>7, EveryJoin
<1>2. CASE ~EveryJapanese(c, m) /\ MGLetter(c, m) # "I"
  <2>1. JapaneseFiles(c, m) = <<>> \o <<>> \o <<>>
    BY <1>2 DEF JapaneseFiles
  <2>2. DOMAIN (<<>> \o <<>> \o <<>>) = {}
    OBVIOUS
  <2> QED
    BY <2>1, <2>2 DEF Every
<1> QED
  BY <1>1, <1>2

LEMMA ResourcesHomed ==
  ASSUME NEW c, NEW m, NEW letter \in Letters, NEW folder \in Letters,
         <<Exec(folder)>> \in Homes(c, m) \/ folder = "R"
  PROVE  Every(Resources(letter, folder), HomedBase(c, "mc", m))
<1>1. /\ Len(Resources(letter, folder)) = 2 /\ Resources(letter, folder) \in Seq(BaseEntry)
      /\ Len(SysResource) = 2 /\ DOMAIN SysResource = 1 .. 2 /\ \A n \in 1 .. 2 : SysResource[n] \in BaseEntry
  BY ResourcesType, CardTables, Elements
<1>2. DOMAIN Resources(letter, folder) = 1 .. 2 /\ \A n \in 1 .. 2 : Resources(letter, folder)[n] \in BaseEntry
  BY <1>1, Elements
<1>3. \A n \in 1 .. 2 : SysResource[n].path.part = "mc"
  BY DEF SysResource, Card, Entry, Path
<1>4. ASSUME NEW n \in 1 .. 2
      PROVE  /\ Resources(letter, folder)[n].path.part = "mc"
             /\ Resources(letter, folder)[n].path.dir = <<Exec(folder)>>
  <2>1. SysResource[n] \in BaseEntry /\ SysResource[n].path.part = "mc"
    BY <1>1, <1>3
  <2> QED
    BY <1>1, <2>1 DEF Resources, BaseEntry
<1> QED
  BY <1>2, <1>4 DEF Every, HomedBase, Made

LEMMA CardListHomed ==
  ASSUME NEW c \in Consoles, NEW m, Sensible(c, m)
  PROVE  Every(FileCopyList(c, m), HomedBase(c, "mc", m))
<1>1. /\ SystemFiles(c, m) \in Seq(BaseEntry) /\ Every(SystemFiles(c, m), HomedBase(c, "mc", m))
      /\ JapaneseFiles(c, m) \in Seq(BaseEntry) /\ Every(JapaneseFiles(c, m), HomedBase(c, "mc", m))
      /\ ResourceFiles(c, m) \in Seq(BaseEntry)
  <2>1. SystemFiles(c, m) \in Seq(BaseEntry) /\ JapaneseFiles(c, m) \in Seq(BaseEntry)
    BY SystemFilesType, JapaneseFilesType
  <2>2. ResourceFiles(c, m) \in Seq(BaseEntry)
    BY ResourceFilesType
  <2>3. Every(SystemFiles(c, m), HomedBase(c, "mc", m))
    BY SystemFilesHomed
  <2>4. Every(JapaneseFiles(c, m), HomedBase(c, "mc", m))
    BY JapaneseFilesHomed
  <2> QED
    BY <2>1, <2>2, <2>3, <2>4
<1>2. Every(ResourceFiles(c, m), HomedBase(c, "mc", m))
  <2>1. {"I", "E", "A", "C", "R"} \subseteq Letters /\ MGLetter(c, m) \in Letters
    BY Letter DEF Letters
  <2>2. CASE EveryRegion(m)
    <3> DEFINE s1 == Resources("I", "I")
               s2 == Resources("E", "E")
               s3 == Resources("A", "A")
               s4 == Resources("C", "C")
    <3>1. /\ s1 \in Seq(BaseEntry) /\ s2 \in Seq(BaseEntry) /\ s3 \in Seq(BaseEntry) /\ s4 \in Seq(BaseEntry)
          /\ Every(s1, HomedBase(c, "mc", m)) /\ Every(s2, HomedBase(c, "mc", m))
          /\ Every(s3, HomedBase(c, "mc", m)) /\ Every(s4, HomedBase(c, "mc", m))
      <4>1. {<<Exec("I")>>, <<Exec("E")>>, <<Exec("A")>>, <<Exec("C")>>} \subseteq Homes(c, m)
        BY <2>2 DEF Homes
      <4> QED
        BY <2>1, <4>1, ResourcesType, ResourcesHomed
    <3>2. ResourceFiles(c, m) = s1 \o s2 \o s3 \o s4
      BY <2>2 DEF ResourceFiles
    <3> HIDE DEF s1, s2, s3, s4
    <3>3. s1 \o s2 \in Seq(BaseEntry) /\ Every(s1 \o s2, HomedBase(c, "mc", m))
      BY <3>1, EveryJoin
    <3>4. s1 \o s2 \o s3 \in Seq(BaseEntry) /\ Every(s1 \o s2 \o s3, HomedBase(c, "mc", m))
      BY <3>1, <3>3, EveryJoin
    <3>5. Every(s1 \o s2 \o s3 \o s4, HomedBase(c, "mc", m))
      BY <3>1, <3>4, EveryJoin
    <3> QED
      BY <3>2, <3>5
  <2>3. CASE ~EveryRegion(m)
    BY <2>1, <2>3, ResourcesHomed DEF ResourceFiles
  <2> QED
    BY <2>2, <2>3
<1> DEFINE system == SystemFiles(c, m)
           japanese == JapaneseFiles(c, m)
           resources == ResourceFiles(c, m)
           set == HomedBase(c, "mc", m)
<1>3. FileCopyList(c, m) = (system \o japanese) \o resources
  BY DEF FileCopyList
<1>4. /\ system \in Seq(BaseEntry) /\ japanese \in Seq(BaseEntry) /\ resources \in Seq(BaseEntry)
      /\ Every(system, set) /\ Every(japanese, set) /\ Every(resources, set)
  BY <1>1, <1>2
<1> HIDE DEF system, japanese, resources, set
<1>5. system \o japanese \in Seq(BaseEntry) /\ Every(system \o japanese, set)
  BY <1>4, EveryJoin
<1>6. Every((system \o japanese) \o resources, set)
  BY <1>4, <1>5, EveryJoin
<1> QED
  BY <1>3, <1>6 DEF set

LEMMA HDDListHomed ==
  ASSUME NEW c, NEW m PROVE Every(FileCopyListHDD(c), HomedBase(c, "hdd", m))
<1> DEFINE type == IF c.type = "DEX" THEN DEXSysHDD ELSE PS2SysHDD
<1>1. type \in Seq(BaseEntry) /\ HDDBase \in Seq(BaseEntry)
  BY HDDTables
<1>2. \A n \in DOMAIN type : type[n] \in BaseEntry
  BY <1>1, Elements
<1>4. Every(type, HomedBase(c, "hdd", m))
  <2>1. \A n \in DOMAIN type :
          type[n].path = MBR.path \/ Folder(type[n].path.part, type[n].path.dir) \in HDDFolders
    BY DEF PS2SysHDD, DEXSysHDD, FHDB, Entry, Path, Folder, HDDFolders, FoldersOfSystem
  <2> QED
    BY <1>2, <2>1 DEF Every, HomedBase, Made
<1>5. Every(HDDBase, HomedBase(c, "hdd", m))
  <2> DEFINE first == << Entry("FSCK.XLF", Path("__system", <<"fsck">>, "fsck.elf")) >>
             texts == [n \in DOMAIN Texts |-> Entry(Texts[n], Path("__system", <<"fsck", "lang">>, Texts[n]))]
  <2>1. /\ Folder("__system", <<"fsck">>) \in Made(c, "hdd", m)
        /\ Folder("__system", <<"fsck", "lang">>) \in Made(c, "hdd", m)
    BY DEF Made, HDDFolders, FoldersOfSystem
  <2>2. first \in Seq(BaseEntry) /\ Every(first, HomedBase(c, "hdd", m))
    <3>1. Entry("FSCK.XLF", Path("__system", <<"fsck">>, "fsck.elf")) \in BaseEntry
      <4>1. "FSCK.XLF" \in Sources
        BY DEF Sources
      <4>2. "__system" \in Parts /\ <<"fsck">> \in Seq(Folders) /\ "fsck.elf" \in Names
        BY DEF Parts, Folders, Names
      <4> QED
        BY <4>1, <4>2, EntryType
    <3>2. Entry("FSCK.XLF", Path("__system", <<"fsck">>, "fsck.elf")) \in HomedBase(c, "hdd", m)
      BY <2>1, <3>1 DEF HomedBase, Entry, Path
    <3> QED
      BY <3>1, <3>2 DEF Every
  <2>3. texts \in Seq(BaseEntry) /\ Every(texts, HomedBase(c, "hdd", m))
    <3>1. DOMAIN Texts = 1 .. 17
      BY DEF Texts
    <3>2. ASSUME NEW n \in 1 .. 17 PROVE texts[n] \in BaseEntry /\ texts[n] \in HomedBase(c, "hdd", m)
      <4>1. Texts[n] \in Sources /\ Texts[n] \in Names
        BY <3>1 DEF Sources, Names, ToSet
      <4>2. texts[n] = Entry(Texts[n], Path("__system", <<"fsck", "lang">>, Texts[n]))
        BY <3>1
      <4>3. "__system" \in Parts /\ <<"fsck", "lang">> \in Seq(Folders)
        BY DEF Parts, Folders
      <4>4. texts[n] \in BaseEntry
        BY <4>1, <4>2, <4>3, EntryType
      <4>5. texts[n].path.part = "__system" /\ texts[n].path.dir = <<"fsck", "lang">>
        <5>1. \A x : LET e == Entry(x, Path("__system", <<"fsck", "lang">>, x))
                     IN e.path.part = "__system" /\ e.path.dir = <<"fsck", "lang">>
          BY DEF Entry, Path
        <5> HIDE DEF texts
        <5> QED
          BY <4>2, <5>1
      <4> QED
        BY <2>1, <4>4, <4>5 DEF HomedBase
    <3>3. texts \in [1 .. 17 -> BaseEntry]
      BY <3>1, <3>2
    <3> HIDE DEF texts
    <3>4. texts \in Seq(BaseEntry)
      BY <3>3, Sequence
    <3> QED
      BY <3>2, <3>3, <3>4 DEF Every
  <2>4. HDDBase = first \o texts
    BY DEF HDDBase
  <2> HIDE DEF first, texts
  <2> QED
    BY <2>2, <2>3, <2>4, EveryJoin
<1>6. FileCopyListHDD(c) = type \o HDDBase
  BY DEF FileCopyListHDD
<1> HIDE DEF type
<1> QED
  BY <1>1, <1>4, <1>5, <1>6, EveryJoin

LEMMA StatsHomed ==
  ASSUME NEW c \in Consoles, NEW m, NEW t, NEW s \in Seq(BaseEntry), NEW absent, Every(s, HomedBase(c, t, m))
  PROVE  Homed(GetAllBaseFileStats(MGLetter(c, m), s, absent), Made(c, t, m))
<1> DEFINE stats == GetAllBaseFileStats(MGLetter(c, m), s, absent)
<1> SUFFICES ASSUME NEW n \in DOMAIN stats
             PROVE  stats[n].path = MBR.path \/ Holder(stats[n]) \in Made(c, t, m)
  BY DEF Homed
<1>1. n \in DOMAIN s /\ s[n] \in HomedBase(c, t, m) /\ s[n] \in BaseEntry
  BY DEF GetAllBaseFileStats, Every, HomedBase
<1> DEFINE e == s[n]
           dir == IF e.path.dir = <<Exec("R")>> THEN <<Exec(MGLetter(c, m))>> ELSE e.path.dir
<1>2. /\ stats[n].path = [e.path EXCEPT !.dir = dir] /\ stats[n].isdir = FALSE
      /\ stats[n].path.part = e.path.part /\ stats[n].path.dir = dir
  BY <1>1 DEF GetAllBaseFileStats, BaseEntry
<1>3. Holder(stats[n]) = Folder(e.path.part, dir)
  BY <1>2 DEF Holder
<1>4. CASE e.path.dir # <<Exec("R")>>
  <2>1. dir = e.path.dir /\ stats[n].path = e.path
    BY <1>1, <1>2, <1>4 DEF BaseEntry
  <2> QED
    BY <1>1, <1>3, <1>4, <2>1 DEF HomedBase
<1>5. CASE e.path.dir = <<Exec("R")>>
  <2>1. MBR.path.dir = <<>> /\ <<Exec("R")>> # <<>>
    BY DEF MBR, Entry, Path
  <2>2. e.path # MBR.path
    <3> HIDE DEF e
    <3> QED
      BY <1>5, <2>1
  <2>3. Folder(e.path.part, e.path.dir) \in Made(c, t, m) => t = "mc" /\ e.path.part = "mc"
    <3>1. <<Exec("R")>> \notin {<<"osd">>, <<"fsck">>, <<"fsck", "lang">>, <<"FMCB">>, <<"PS2BBL">>, <<"APPS">>}
      BY DEF Exec
    <3> HIDE DEF e
    <3>2. \A f \in HDDFolders : f.dir # <<Exec("R")>>
      BY <3>1 DEF HDDFolders, FoldersOfSystem, Folder
    <3>3. \A f \in Roots : f.dir # <<Exec("R")>>
      <4>1. \A f \in Roots : f.dir = <<>>
        BY DEF Roots, Folder
      <4> QED
        BY <2>1, <4>1
    <3>4. \A d : Folder("mc", d).part = "mc"
      BY DEF Folder
    <3>5. /\ Folder(e.path.part, e.path.dir).dir = <<Exec("R")>>
          /\ Folder(e.path.part, e.path.dir).part = e.path.part
      BY <1>5 DEF Folder
    <3> QED
      BY <3>2, <3>3, <3>4, <3>5 DEF Made
  <2>4. t = "mc" /\ e.path.part = "mc"
    BY <1>1, <2>2, <2>3 DEF HomedBase
  <2>5. Folder("mc", <<Exec(MGLetter(c, m))>>) \in Made(c, t, m)
    BY <2>4, LetterHome DEF Made
  <2> QED
    BY <1>3, <1>5, <2>4, <2>5
<1> QED
  BY <1>4, <1>5

(* The destinations of the payload are made with the other folders. *)
LEMMA Before == ASSUME NEW l \in Nat PROVE \A n \in 1 .. l : \A k \in 1 .. n - 1 : k \in 1 .. l
  OBVIOUS

LEMMA ListingHomed ==
  ASSUME NEW s \in Seq(PayloadEntry), NEW root, NEW made, IsListing(s, root), root \in made
  PROVE  Homed(s, made)
<1>1. Len(s) \in Nat /\ DOMAIN s = 1 .. Len(s) /\ \A n \in 1 .. Len(s) : s[n] \in PayloadEntry
  BY Elements
<1>2. \A n \in 1 .. Len(s) : s[n].skip = FALSE
  BY <1>1 DEF PayloadEntry
<1>3. \A n \in 1 .. Len(s) : \A k \in 1 .. n - 1 : k \in 1 .. Len(s)
  BY <1>1, Before
<1> QED
  BY <1>1, <1>2, <1>3 DEF Homed, IsListing

LEMMA MarkedHomed ==
  ASSUME NEW s \in Seq(PayloadEntry), NEW cnf, NEW root, NEW made, IsListing(s, root), root \in made, cnf # ""
  PROVE  Homed(Marked(s, cnf), made)
<1> DEFINE t == Marked(s, cnf)
<1>1. Len(s) \in Nat /\ DOMAIN s = 1 .. Len(s) /\ DOMAIN t = 1 .. Len(s)
  BY Elements DEF Marked
<1>2. \A n \in 1 .. Len(s) :
        /\ t[n].path = s[n].path /\ t[n].isdir = s[n].isdir
        /\ t[n].skip = ("SKIP_CNF" \in mode /\ s[n].path.name = cnf)
  BY MarkedFields, Zenon
<1> HIDE DEF t
<1>3. \A n \in 1 .. Len(s) : s[n].isdir => ~t[n].skip
  BY <1>1, <1>2 DEF IsListing
<1>4. \A n \in 1 .. Len(s) : Holder(t[n]) = Holder(s[n])
  BY <1>2 DEF Holder
<1>5. \A n \in 1 .. Len(s) : \A k \in 1 .. n - 1 : k \in 1 .. Len(s)
  BY <1>1, Before
<1>6. Homed(t, made)
  <2> SUFFICES ASSUME NEW n \in 1 .. Len(s), Holder(t[n]) # root
               PROVE  \E k \in 1 .. n - 1 :
                        t[k].isdir /\ ~t[k].skip /\ Holder(t[n]) = Folder(t[k].path.part, t[k].path.dir)
    BY <1>1 DEF Homed
  <2>1. PICK k \in 1 .. n - 1 : s[k].isdir /\ Holder(s[n]) = Folder(s[k].path.part, s[k].path.dir)
    BY <1>1, <1>4 DEF IsListing
  <2>2. k \in 1 .. Len(s)
    BY <1>5
  <2> QED
    BY <1>2, <1>3, <1>4, <2>1, <2>2
<1> QED
  BY <1>6 DEF t

LEMMA AddedHomed ==
  ASSUME Inputs, NEW f \in PayloadFolders, f = "MC" <=> target = "mc"
  PROVE  Homed(Added(f), Made(console, target, mode))
<1> DEFINE made == Made(console, target, mode)
<1>1. Destination(f) \in made
  <2>1. CASE f = "MC"
    BY <2>1 DEF Destination, Made, Roots
  <2>2. CASE f # "MC"
    BY <2>2 DEF PayloadFolders, Destination, Made, Roots, HDDFolders, FoldersOfSystem
  <2> QED
    BY <2>1, <2>2
<1>2. payload[f] \in Seq(PayloadEntry) /\ IsListing(payload[f], Destination(f))
  BY PayloadFacts
<1> HIDE DEF made
<1>3. Homed(payload[f], made)
  BY <1>1, <1>2, ListingHomed
<1>4. ASSUME NEW cnf \in {"FREEMCB.CNF", "FREEHDB.CNF"} PROVE Homed(Marked(payload[f], cnf), made)
  <2>1. cnf # ""
    OBVIOUS
  <2> QED
    BY <1>1, <1>2, <2>1, MarkedHomed
<1>5. Homed(Added(f), made)
  BY <1>3, <1>4 DEF Added
<1> QED
  BY <1>5 DEF made

(* The invariant: the list keeps to the folders that are made, and unless  *)
(* a call failed they are there when the copy starts.                      *)
Listed == PayloadFolders \cup {"space", "cleanup", "folders", "copy"}
FInv ==
  /\ faults \in Nat /\ Roots \subseteq folders
  /\ pc = "stats" => Every(list, HomedBase(console, target, mode))
  /\ pc \in Listed /\ result = "ok" => Homed(list, Made(console, target, mode))
  /\ pc = "copy" /\ faults = 0 => Made(console, target, mode) \subseteq folders

LEMMA FolderStep == IInv /\ FInv /\ [Next]_vars => FInv'
<1> SUFFICES ASSUME IInv, FInv, [Next]_vars PROVE FInv'
  OBVIOUS
<1> USE DEF inputVars, diskVars, fileVars
<1>1. faults' \in Nat /\ (faults' = 0 => faults = 0)
  BY DEF FInv, Next, vars, Fault, Count, Fill, Stats, AddDirContents, Space, FreeNames, Cleanup, CleanupMC,
         CleanupHDD, CreateBasicFolders, Skip, MakeFolder, CopyMBR, CopyFile, CopyDone, EnableHDDBooting
<1>2. UNCHANGED inputVars
  BY DEF Next, vars, Count, Fill, Stats, AddDirContents, Space, FreeNames, Cleanup, CreateBasicFolders, Skip,
         MakeFolder, CopyMBR, CopyFile, CopyDone, EnableHDDBooting, Advance, Fail
<1> DEFINE made == Made(console, target, mode)
           based == HomedBase(console, target, mode)
<1>3. ASSUME Roots \subseteq folders',
             pc' = "stats" => Every(list', based),
             pc' \in Listed /\ result' = "ok" => Homed(list', made),
             pc' = "copy" /\ faults' = 0 => made \subseteq folders'
      PROVE  FInv'
  BY <1>1, <1>2, <1>3 DEF FInv
<1> HIDE DEF made, based
<1>4. /\ Roots \subseteq folders
      /\ pc = "stats" => Every(list, based)
      /\ pc \in Listed /\ result = "ok" => Homed(list, made)
      /\ pc = "copy" /\ faults = 0 => made \subseteq folders
  BY DEF FInv, made, based
<1>5. Inputs /\ Typed /\ OnCourse
  BY DEF IInv
<1>6. CASE Count
  <2>1. pc' \in {"fill", "returned"} /\ folders' = folders
    BY <1>6 DEF Count
  <2> QED
    BY <1>3, <1>4, <2>1 DEF Listed, PayloadFolders
<1>7. CASE Fill
  <2>1. /\ pc' = "stats" /\ folders' = folders
        /\ list' = IF target = "mc" THEN FileCopyList(console, mode) ELSE FileCopyListHDD(console)
    BY <1>7 DEF Fill
  <2>2. Every(list', based)
    BY <1>5, <2>1, CardListHomed, HDDListHomed DEF based, Inputs
  <2> QED
    BY <1>3, <1>4, <2>1, <2>2 DEF Listed, PayloadFolders
<1>8. CASE Stats
  <2>1. /\ pc = "stats" /\ pc' \in {"MC", "HDD/APPS"} /\ folders' = folders
        /\ \E absent : list' = GetAllBaseFileStats(MGLetter(console, mode), list, absent)
    BY <1>8 DEF Stats
  <2>2. PICK absent : list' = GetAllBaseFileStats(MGLetter(console, mode), list, absent)
    BY <2>1
  <2>3. Homed(list', made)
    BY <1>4, <1>5, <2>1, <2>2, StatsHomed DEF made, based, Inputs, Typed
  <2> QED
    BY <1>3, <1>4, <2>1, <2>3
<1>9. CASE AddDirContents
  <2>1. pc \in PayloadFolders /\ folders' = folders
    BY <1>9 DEF AddDirContents
  <2>2. CASE list' = list \o Added(pc) /\ pc' = After(pc)
    <3>1. result = "ok" /\ (pc = "MC" <=> target = "mc") /\ pc \in Listed
      BY <1>5, <2>1 DEF OnCourse, Ended, PayloadFolders, Listed
    <3>2. Homed(list, made) /\ Homed(Added(pc), made)
      BY <1>4, <1>5, <2>1, <3>1, AddedHomed DEF made
    <3>3. list \in Seq(ListEntry) /\ Added(pc) \in Seq(ListEntry)
      BY <1>5, <2>1, <3>1, AddedFacts DEF Typed
    <3>4. Homed(list', made)
      BY <2>2, <3>2, <3>3, HomedJoin
    <3>5. pc' # "stats" /\ pc' # "copy"
      BY <2>1, <2>2 DEF After, PayloadFolders
    <3> QED
      BY <1>3, <1>4, <2>1, <3>4, <3>5
  <2>3. CASE result' = "error" /\ pc' \in {"space", "returned"}
    BY <1>3, <1>4, <2>1, <2>3
  <2> QED
    BY <1>9, <2>2, <2>3 DEF AddDirContents
<1>10. CASE Space \/ FreeNames
  <2>1. /\ folders' = folders /\ list' = list
        /\ \/ pc = "space" /\ pc' = "cleanup" /\ result = "ok"
           \/ pc' \in {"free", "returned", "crashed"}
    BY <1>10 DEF Space, FreeNames
  <2> QED
    BY <1>3, <1>4, <2>1 DEF Listed, PayloadFolders
<1>11. CASE Cleanup
  <2>1. /\ pc = "cleanup" /\ list' = list
        /\ (pc' = "folders" /\ result' = result) \/ pc' = "returned"
    BY <1>11 DEF Cleanup, CleanupMC, CleanupHDD
  <2>2. Roots \subseteq folders'
    <3> SUFFICES ASSUME NEW f \in Roots PROVE f \in folders'
      OBVIOUS
    <3>1. f \in folders /\ f.dir = <<>>
      BY <1>4 DEF Roots, Folder
    <3>2. f.dir \notin ToSet(SystemFolders)
      <4>1. ToSet(SystemFolders) = {<<Exec("I")>>, <<Exec("E")>>, <<Exec("A")>>, <<Exec("C")>>}
        BY DEF ToSet, SystemFolders
      <4> QED
        BY <3>1, <4>1
    <3>3. f \notin FoldersOfSystem \cup {Folder("__sysconf", <<"FMCB">>)}
      BY <3>1 DEF FoldersOfSystem, Folder
    <3>4. ASSUME NEW files, NEW some, f \notin some PROVE f \in Without(folders, files, some)
      BY <3>1, <3>4 DEF Without
    <3> QED
      BY <1>11, <3>1, <3>2, <3>3, <3>4 DEF Cleanup, CleanupMC, CleanupHDD
  <2> QED
    BY <1>3, <1>4, <2>1, <2>2 DEF Listed, PayloadFolders
<1>12. CASE CreateBasicFolders
  <2>1. /\ pc = "folders" /\ list' = list
        /\ (pc' = "copy" /\ result' = result) \/ pc' \in {"free", "returned"}
    BY <1>12 DEF CreateBasicFolders, Ending
  <2>2. folders \subseteq folders'
    BY <1>12 DEF CreateBasicFolders
  <2>3. ASSUME pc' = "copy", faults' = 0 PROVE made \subseteq folders'
    <3>1. CASE target = "mc"
      <4>1. PICK n \in 0 .. Len(CardFolders) :
              /\ folders' = folders \cup {Folder("mc", CardFolders[k]) : k \in 1 .. n}
              /\ n = Len(CardFolders) \/ pc' = Ending
        BY <1>12, <3>1 DEF CreateBasicFolders
      <4>2. \A k \in 1 .. Len(CardFolders) : Folder("mc", CardFolders[k]) \in folders'
        BY <2>3, <4>1 DEF Ending
      <4>3. \A d \in Homes(console, mode) : \E k \in 1 .. Len(CardFolders) : CardFolders[k] = d
        <5> DEFINE a == << <<"BOOT">>, <<"SYS-CONF">> >>
        <5>1. CASE EveryRegion(mode)
          <6>1. /\ CardFolders = a \o SystemFolders
                /\ Homes(console, mode) =
                     {<<"BOOT">>, <<"SYS-CONF">>, <<Exec("I")>>, <<Exec("E")>>, <<Exec("A")>>, <<Exec("C")>>}
            BY <5>1 DEF CardFolders, Homes
          <6>2. SystemFolders \in Seq(Homes(console, mode)) /\ a \in Seq(Homes(console, mode))
            BY <6>1 DEF SystemFolders
          <6>3. /\ Len(a) = 2 /\ a[1] = <<"BOOT">> /\ a[2] = <<"SYS-CONF">>
                /\ Len(SystemFolders) = 4 /\ SystemFolders[1] = <<Exec("I")>> /\ SystemFolders[2] = <<Exec("E")>>
                /\ SystemFolders[3] = <<Exec("A")>> /\ SystemFolders[4] = <<Exec("C")>>
            BY DEF SystemFolders
          <6> HIDE DEF a
          <6>4. /\ Len(a \o SystemFolders) = Len(a) + Len(SystemFolders)
                /\ \A k \in 1 .. Len(a) : (a \o SystemFolders)[k] = a[k]
                /\ \A k \in 1 .. Len(SystemFolders) : (a \o SystemFolders)[Len(a) + k] = SystemFolders[k]
            BY <6>2
          <6>5. /\ Len(CardFolders) = 6 /\ CardFolders[1] = a[1] /\ CardFolders[2] = a[2]
                /\ CardFolders[3] = SystemFolders[1] /\ CardFolders[4] = SystemFolders[2]
                /\ CardFolders[5] = SystemFolders[3] /\ CardFolders[6] = SystemFolders[4]
            <7>1. CardFolders = a \o SystemFolders /\ Len(a) = 2 /\ Len(SystemFolders) = 4
              BY <6>1, <6>3
            <7> HIDE DEF CardFolders
            <7> QED
              BY <6>4, <7>1
          <6>6. \A d \in Homes(console, mode) : d \in {CardFolders[k] : k \in 1 .. 6}
            <7>1. /\ CardFolders[1] = <<"BOOT">> /\ CardFolders[2] = <<"SYS-CONF">>
                  /\ CardFolders[3] = <<Exec("I")>> /\ CardFolders[4] = <<Exec("E")>>
                  /\ CardFolders[5] = <<Exec("A")>> /\ CardFolders[6] = <<Exec("C")>>
              BY ONLY <6>3, <6>5
            <7> HIDE DEF CardFolders
            <7>2. {1, 2, 3, 4, 5, 6} \subseteq 1 .. 6
              OBVIOUS
            <7>3. ASSUME NEW d \in Homes(console, mode) PROVE \E k \in {1, 2, 3, 4, 5, 6} : d = CardFolders[k]
              BY ONLY <6>1, <7>1, <7>3
            <7> QED
              BY ONLY <7>2, <7>3
          <6> QED
            BY <6>5, <6>6
        <5>2. CASE ~EveryRegion(mode)
          <6> DEFINE b == << <<Exec(MGLetter(console, mode))>> >>
          <6>1. CardFolders = a \o b
            <7>1. (IF "CROSS_PSX" \in mode THEN Exec("I") ELSE SysExecFolder(console)) = Exec(MGLetter(console, mode))
              BY DEF SysExecFolder, MGLetter
            <7> QED
              BY <5>2, <7>1, Zenon DEF CardFolders
          <6>2. Homes(console, mode) = {<<"BOOT">>, <<"SYS-CONF">>, <<Exec(MGLetter(console, mode))>>}
            BY <5>2 DEF Homes
          <6>3. /\ a \in Seq(Homes(console, mode)) /\ b \in Seq(Homes(console, mode)) /\ Len(a) = 2 /\ Len(b) = 1
                /\ a[1] = <<"BOOT">> /\ a[2] = <<"SYS-CONF">> /\ b[1] = <<Exec(MGLetter(console, mode))>>
            BY <6>2
          <6> HIDE DEF a, b
          <6>5. /\ Len(a \o b) = Len(a) + Len(b)
                /\ \A k \in 1 .. Len(a) : (a \o b)[k] = a[k]
                /\ \A k \in 1 .. Len(b) : (a \o b)[Len(a) + k] = b[k]
            <7>1. a \in Seq(Homes(console, mode)) /\ b \in Seq(Homes(console, mode))
              BY <6>3
            <7> QED
              BY <7>1
          <6>4. /\ Len(CardFolders) = 3 /\ CardFolders[1] = a[1] /\ CardFolders[2] = a[2]
                /\ CardFolders[3] = b[1]
            <7>1. Len(a) = 2 /\ Len(b) = 1
              BY <6>3
            <7> QED
              BY <6>1, <6>5, <7>1
          <6> QED
            BY <6>2, <6>3, <6>4
        <5> QED
          BY <5>1, <5>2
      <4>4. \A d \in Homes(console, mode) : Folder("mc", d) \in folders'
        BY <4>2, <4>3
      <4> QED
        BY <1>4, <2>2, <3>1, <4>4 DEF made, Made
    <3>2. CASE target # "mc"
      <4>1. folders' = folders \cup HDDFolders
        <5>1. faults \in Nat
          BY DEF FInv
        <5>2. ~Fault
          BY <2>3, <5>1 DEF Fault
        <5> QED
          BY <1>12, <3>2, <5>2 DEF CreateBasicFolders
      <4> QED
        BY <1>4, <3>2, <4>1 DEF made, Made
    <3> QED
      BY <3>1, <3>2
  <2> QED
    BY <1>3, <1>4, <2>1, <2>2, <2>3 DEF Listed, PayloadFolders
<1>13. ASSUME folders \subseteq folders', list' = list,
              (pc' = pc /\ result' = result) \/ pc' \in {"boot", "free", "returned"}
       PROVE  FInv'
  BY <1>1, <1>3, <1>4, <1>13 DEF Listed, PayloadFolders
<1>14. CASE Skip \/ MakeFolder \/ CopyMBR \/ CopyFile
  <2>1. Advance \/ Fail
    BY <1>14 DEF Skip, MakeFolder, CopyMBR, CopyFile
  <2>2. folders \subseteq folders'
    BY <1>14 DEF Skip, MakeFolder, CopyMBR, CopyFile
  <2> QED
    BY <1>13, <2>1, <2>2 DEF Advance, Fail, Ending
<1>15. CASE CopyDone \/ EnableHDDBooting
  BY <1>13, <1>15 DEF CopyDone, EnableHDDBooting
<1>16. CASE UNCHANGED vars
  BY <1>13, <1>16 DEF vars
<1> QED
  BY <1>6, <1>7, <1>8, <1>9, <1>10, <1>11, <1>12, <1>14, <1>15, <1>16 DEF Next

(* In an installation no call of which failed, the folder an entry goes to *)
(* is there when its turn comes: the folders CreateBasicFolders makes are  *)
(* those the tables name in every mode and region, no cleanup comes after, *)
(* and the payload brings the others before what they hold.                *)
THEOREM FoldersComeFirst == Spec => []FolderReady
<1>1. Init => FInv
  <2> SUFFICES ASSUME Init PROVE FInv
    OBVIOUS
  <2>1. Roots \subseteq folders
    BY DEF Init, Roots
  <2> QED
    BY <2>1 DEF Init, FInv, Listed, PayloadFolders
<1>2. IInv /\ FInv => FolderReady
  <2> SUFFICES ASSUME IInv, FInv, Copying, This.path # MBR.path, faults = 0 PROVE Holder(This) \in folders
    BY DEF FolderReady
  <2>1. i \in DOMAIN list /\ DOMAIN list = 1 .. Len(list) /\ Len(list) \in Nat
    BY ThisEntry, Elements DEF IInv, Typed
  <2>2. Homed(list, Made(console, target, mode)) /\ Made(console, target, mode) \subseteq folders
    BY DEF FInv, IInv, OnCourse, Ended, Listed, Copying
  <2>3. CASE Holder(This) \in Made(console, target, mode)
    BY <2>2, <2>3
  <2>4. CASE \E k \in 1 .. i - 1 :
               list[k].isdir /\ ~list[k].skip /\ Holder(This) = Folder(list[k].path.part, list[k].path.dir)
    <3>1. PICK k \in 1 .. i - 1 :
            list[k].isdir /\ ~list[k].skip /\ Holder(This) = Folder(list[k].path.part, list[k].path.dir)
      BY <2>4
    <3>2. k \in DOMAIN list /\ k < i
      BY <2>1, <3>1
    <3>3. IsThere(list[k])
      BY <3>1, <3>2 DEF IInv, Passed, Copying
    <3> QED
      BY <3>1, <3>3 DEF IsThere, IsIn
  <2> QED
    BY <2>1, <2>2, <2>3, <2>4 DEF Homed, This
<1> QED
  BY <1>1, <1>2, FolderStep, Invariance, PTL DEF Spec
=============================================================================
