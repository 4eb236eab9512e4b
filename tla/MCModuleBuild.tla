--------------------------- MODULE MCModuleBuild ---------------------------
EXTENDS ModuleBuild, TLC

(* A module graph from the uses of the modules that have any.              *)
Graph(uses) == [m \in Modules |-> IF m \in DOMAIN uses THEN uses[m] ELSE <<>>]
NoUses      == Graph(<<>>)

Compile(m) == [mod |-> m, ifgen |-> FALSE]

(* The programs: main, and other beside it.                                *)
Apps         == {"main", "other"}
OneSession   == {"s1"}
TwoSessions  == {"s1", "s2"}
MainAndOther == "s1" :> {Compile("main")} @@ "s2" :> {Compile("other")}
MainAlone    == "s1" :> {Compile("main")}
MainAndA     == "s1" :> {Compile("main")} @@ "s2" :> {Compile("a")}
MainModules  == {"main", "a", "b"}
TwoPrograms  == {"main", "other", "a", "b"}

(* Both programs share c and d, met in either order, and a and b, whose    *)
(* implementations use each other, entered through a.                      *)
SharedModules  == {"main", "other", "a", "b", "c", "d"}
SharedPublic   == Graph("main"  :> <<"c", "d", "a", "b">>
                     @@ "other" :> <<"d", "c", "a">>
                     @@ "c" :> <<"d">>)
CircularPrivate == Graph("a" :> <<"b">> @@ "b" :> <<"a">>)

(* main uses a and b; the interfaces of other and c use each other.        *)
EditModules  == {"main", "other", "a", "b", "c"}
EditPublic   == Graph("main" :> <<"a", "b">> @@ "a" :> <<"b">>
                   @@ "other" :> <<"c">> @@ "c" :> <<"other">>)
EditCommands == "s1" :> {Compile("main"), Compile("other")}

(* Two programs that enter the circle of a and b from its two ends.        *)
CrossedPublic == Graph("main" :> <<"a">> @@ "other" :> <<"b">>)

(* a uses b in its interface, b uses a in its implementation.              *)
MixedPublic  == Graph("main" :> <<"b", "a">> @@ "a" :> <<"b">>)
MixedPrivate == Graph("b" :> <<"a">>)

(* main uses a, and a uses b: in its interface, in its implementation.     *)
ChainPublic   == Graph("main" :> <<"a">> @@ "a" :> <<"b">>)
HiddenPublic  == Graph("main" :> <<"a">>)
HiddenPrivate == Graph("a" :> <<"b">>)
=============================================================================
