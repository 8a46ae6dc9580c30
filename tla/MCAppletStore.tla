--------------------------- MODULE MCAppletStore ----------------------------
(* An instance of AppletStore with a long and a short loadable ELF, one     *)
(* that passes the checks but cannot be loaded, and one that fails them.    *)
EXTENDS AppletStore

CONSTANTS long, short, unloadable, junk

BlocksOf == [e \in Elfs |-> CASE e = long -> 3 [] e = unloadable -> 2
                              [] OTHER -> 1]
=============================================================================
