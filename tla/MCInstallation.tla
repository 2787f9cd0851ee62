---------------------------- MODULE MCInstallation ----------------------------
(***************************************************************************)
(* A console of each type and region, with each of the ROM versions the    *)
(* code tells apart; a payload whose optional folders hold a folder and a  *)
(* file each, or only some of them, or a configuration in two places; one  *)
(* file absent, one call failing.                                          *)
(***************************************************************************)
EXTENDS Installation

Con(type, region, rom) == [type |-> type, region |-> region, rom |-> rom]
MCConsoles ==
  {Con("PS2", "J", 256), Con("PS2", "J", 257), Con("PS2", "J", 288), Con("PS2", "J", 352),
   Con("PS2", "A", 272), Con("PS2", "E", 288), Con("PS2", "H", 336), Con("PS2", "C", 400),
   Con("DEX", "A", 304), Con("PSX", "J", 384)}

Dir(part, dir) == [src |-> "", path |-> Path(part, dir, ""), isdir |-> TRUE, skip |-> FALSE]
File(part, dir, name) == Entry(name, Path(part, dir, name))

Contents ==
  [f \in {"MC", "HDD/APPS", "HDD/CFG_FHDB", "HDD/CFG_PS2BBL", "HDD/HDD_OSD/sysconf", "HDD/HDD_OSD/system"} |->
    CASE f = "MC" -> << Dir("mc", <<"SYS-CONF">>), File("mc", <<"SYS-CONF">>, "FREEMCB.CNF"),
                        Dir("mc", <<"APP">>), File("mc", <<"APP">>, "APP.ELF") >>
      [] f = "HDD/APPS" -> << Dir("__common", <<"APPS", "APP">>), File("__common", <<"APPS", "APP">>, "APP.ELF") >>
      [] f = "HDD/CFG_FHDB" -> << File("__sysconf", <<"FMCB">>, "FREEHDB.CNF") >>
      [] f = "HDD/CFG_PS2BBL" -> << File("__sysconf", <<"PS2BBL">>, "CONFIG.INI") >>
      [] f = "HDD/HDD_OSD/sysconf" -> << File("__sysconf", <<>>, "ICON.SYS") >>
      [] f = "HDD/HDD_OSD/system" -> << Dir("__system", <<"osd", "FNTOSD">>), File("__system", <<"osd", "FNTOSD">>, "FONT") >>]
Only(there) == [f \in DOMAIN Contents |-> IF f \in there THEN Contents[f] ELSE <<>>]
TwoConfigurations ==
  [Only({"HDD/CFG_FHDB"}) EXCEPT !["HDD/HDD_OSD/sysconf"] =
     << Dir("__sysconf", <<"FMCB">>), File("__sysconf", <<"FMCB">>, "FREEHDB.CNF") >>]
MCPayloads == {Contents, Only({}), Only({"HDD/APPS", "HDD/HDD_OSD/system"}), TwoConfigurations}
=============================================================================
