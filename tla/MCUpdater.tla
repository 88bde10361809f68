----------------------------- MODULE MCUpdater -----------------------------
(***************************************************************************)
(* A package with two files and an image of two blocks and a half, the     *)
(* scripts that a full and an incremental package have and one for the     *)
(* image of "boot", scripts with the mistakes that the install functions   *)
(* answer to, packages with parts missing, flash_image, and small          *)
(* expressions of the language.                                            *)
(***************************************************************************)
EXTENDS EdifyReadme

S(x) == Lit(<<x>>)
P(path) == Lit(<<"/">> \o path)
Script(es) == FoldLeft(LAMBDA l, r : Fn(";", <<l, r>>), Head(es), Tail(es))
Assert1(e) == Fn("assert", <<e>>)
Call(f, es) == Fn(f, es)

MCImage == <<"h2", "x2", "y2", "z2", "w2">>
MCOldImage == <<"h1", "x1", "y1", "z1">>
MCBadBlocks == {{}, {2}, {1, 3}, {1, 2, 4}}

App == <<"system", "app">>
Old == <<"system", "old">>
Dst == <<"system", "new", "lib">>
MCOldDisk ==
    (Sys :> Dir) @@ ((<<"/">> \o App) :> [File(<<"a1">>) EXCEPT !.perm = "600"])
        @@ ((<<"/">> \o Old) :> File(<<"o1">>))
MCRam ==
    (<<"/">> :> Dir) @@ (<<"/", "tmp">> :> Dir) @@ (Sys :> Dir)
        @@ (<<"/", "props">> :> File(<<"# c", "k=v", "bad">>)) @@ (<<"/", "empty">> :> File(<<>>))

MCArchive ==
    << [name |-> <<"boot.img">>, data |-> MCImage], [name |-> <<"p">>, data |-> <<"diff">>],
       [name |-> App, data |-> <<"a2">>], [name |-> Dst, data |-> <<"l2">>] >>

FullScript == Script(<<
    Assert1(Call("format", <<S("MTD"), S("system")>>)),
    Assert1(Call("mount", <<S("MTD"), S("system"), P(<<"system">>)>>)),
    Assert1(Call("package_extract_dir", <<S("system"), P(<<"system">>)>>)),
    Call("symlink", <<P(App), P(<<"system", "ln">>)>>),
    Call("set_perm_recursive", <<S("0"), S("0"), S("700"), S("600"), P(<<"system">>)>>),
    Call("unmount", <<P(<<"system">>)>>)>>)

BootScript == Script(<<
    Call("show_progress", <<S("1"), S("0")>>),
    Fn("assert", <<
        Call("package_extract_file", <<S("boot.img"), P(<<"tmp", "boot">>)>>),
        Call("write_raw_image", <<P(<<"tmp", "boot">>), S("boot")>>),
        Call("delete", <<P(<<"tmp", "boot">>)>>)>>)>>)

Shas == <<Lit(Sha(<<"a1">>)), Lit(Sha(<<"a2">>))>>
IncrementalScript == Script(<<
    Assert1(Call("mount", <<S("MTD"), S("system"), P(<<"system">>)>>)),
    Assert1(Call("apply_patch_check", <<P(App)>> \o Shas)),
    Assert1(Call("apply_patch_space", <<S("1")>>)),
    Assert1(Call("apply_patch",
        <<P(App), S("-"), Shas[2], S("1"), Shas[1], Call("package_extract_file", <<S("p")>>)>>)),
    Call("delete", <<P(Old)>>),
    Call("set_progress", <<S("1")>>),
    Call("set_perm", <<S("0"), S("0"), S("700"), P(App)>>),
    Call("unmount", <<P(<<"system">>)>>)>>)

MCPatches ==
    (<<<<"a1">>, <<"diff">>>> :> <<"a2">>) @@ (<<MCRam[<<"/", "props">>].data, <<"diff">>>> :> <<"other">>)

\* The functions that only read, and those that are told to remove a tree.
CarefulScript == Script(<<
    Fn("ifelse", <<Call("is_mounted", <<P(<<"system">>)>>), Lit(<<>>),
        Call("mount", <<S("MTD"), S("system"), P(<<"system">>)>>)>>),
    Assert1(Fn("==", <<Call("file_getprop", <<P(<<"props">>), S("k")>>), Call("getprop", <<S("k")>>)>>)),
    Call("ui_print", <<S("hello")>>),
    Assert1(Call("sha1_check", <<Call("read_file", <<P(App)>>), Shas[2], Shas[1]>>)),
    Assert1(Fn("==", <<Call("run_program", <<P(App)>>), S("0")>>)),
    Call("delete_recursive", <<P(<<"system">>)>>),
    Call("is_mounted", <<P(<<"system">>)>>)>>)

\* One expression for each answer to a mistake.
Mistakes == <<
    Call("mount", <<S("MTD")>>), Call("format", <<S("vfat"), S("system")>>),
    Call("format", <<Lit(<<>>), S("system")>>), Call("mount", <<S("MTD"), Lit(<<>>), P(<<"a">>)>>),
    Call("mount", <<S("MTD"), S("none"), P(<<"a">>)>>), Call("is_mounted", <<Lit(<<>>)>>),
    Call("unmount", <<Lit(<<>>)>>), Call("unmount", <<P(<<"system">>)>>),
    Call("delete", <<P(<<"props">>), Fn("abort", <<>>)>>),
    Call("delete", <<P(<<"props">>), P(<<"none">>), P(<<"tmp">>)>>),
    Call("delete_recursive", <<P(<<"none">>)>>), Call("delete_recursive", <<P(<<"tmp">>)>>),
    Call("package_extract_dir", <<P(<<"system">>), P(<<"tmp">>)>>),
    Call("package_extract_dir", <<S("system"), P(<<"props">>)>>),
    Call("package_extract_file", <<S("none"), P(<<"tmp", "f">>)>>),
    Fn("concat", <<Call("package_extract_file", <<S("p")>>), S("a")>>),
    Call("sha1_check", <<Call("package_extract_file", <<S("none")>>), Shas[1]>>),
    Call("sha1_check", <<S("a1")>>), Call("sha1_check", <<S("a1"), S("a"), Shas[2]>>),
    Call("set_perm", <<S("a"), S("0"), S("0"), P(<<"props">>)>>),
    Call("set_perm", <<S("0"), S("0"), S("0"), P(<<"none">>), P(<<"props">>)>>),
    Call("set_perm_recursive", <<S("0"), S("0"), S("a"), S("0"), P(<<"tmp">>)>>),
    Call("symlink", <<P(<<"props">>), P(<<"tmp">>), P(<<"none", "a">>), P(<<"empty">>)>>),
    Call("file_getprop", <<P(<<"props">>), S("z")>>), Call("file_getprop", <<P(<<"none">>), S("k")>>),
    Call("file_getprop", <<P(<<"empty">>), S("k")>>), Call("getprop", <<S("z")>>),
    Call("read_file", <<P(<<"none">>)>>), Call("run_program", <<P(<<"none">>)>>),
    Call("write_raw_image", <<P(<<"props">>), Lit(<<>>)>>),
    Call("write_raw_image", <<P(<<"props">>), S("none")>>),
    Call("write_raw_image", <<P(<<"none">>), S("boot")>>),
    Call("apply_patch_space", <<S("a")>>), Call("apply_patch", <<S("a"), S("b")>>),
    Call("apply_patch_check", <<P(App), Fn("abort", <<>>)>>), Call("apply_patch_check", <<P(<<"props">>)>>),
    Call("apply_patch", <<P(App), S("-"), Shas[2], S("a"), Shas[1], S("b")>>),
    Call("apply_patch", <<P(App), S("-"), Shas[2], S("1"), Shas[1], S("b")>>),
    Call("apply_patch", <<P(App), S("-"), Shas[2], S("1"), Shas[1], Fn("abort", <<S("m")>>)>>),
    Call("apply_patch", <<P(App), S("-"), Shas[2], S("1"), Shas[1], Call("package_extract_file", <<S("p")>>)>>),
    Call("apply_patch", <<P(<<"props">>), S("-"), Shas[2], S("1"), Lit(Sha(MCRam[<<"/", "props">>].data)),
        Call("package_extract_file", <<S("none")>>)>>),
    Call("apply_patch", <<P(<<"props">>), S("-"), Shas[2], S("1"), Lit(Sha(MCRam[<<"/", "props">>].data)),
        Call("package_extract_file", <<S("p")>>)>>),
    Call("ui_print", <<>>), Call("sleep", <<S("0")>>) >>

MCGoal ==
    (1 :> [raw |-> FALSE, disk |->
        (Sys :> [Dir EXCEPT !.perm = "700"]) @@ (<<"/", "system", "new">> :> [Dir EXCEPT !.perm = "700"])
            @@ ((<<"/">> \o App) :> [File(<<"a2">>) EXCEPT !.perm = "600"])
            @@ ((<<"/">> \o Dst) :> [File(<<"l2">>) EXCEPT !.perm = "600"])
            @@ (<<"/", "system", "ln">> :> Link(<<"/">> \o App))])
    @@ (2 :> [raw |-> FALSE, disk |->
        (Sys :> Dir) @@ ((<<"/">> \o App) :> [File(<<"a2">>) EXCEPT !.perm = "700"])])
    @@ (3 :> [raw |-> TRUE, disk |-> MCOldDisk])

\* Expressions: every Outer function of an atom and of an Inner expression, in either order;
\* and ifelse() of three atoms, and functions of one argument.
Atoms == <<Lit(<<>>), S("a"), Fn("abort", <<>>), Fn("stdout", <<S("3")>>), S("3")>>
Outer == <<";", "&&", "||", "==", "!=", "concat", "assert", "stdout", "ifelse", "less_than_int",
           "greater_than_int", "is_substring">>
Inner == <<"||", "assert", "stdout">>
Unary == <<"!", "abort", "concat", "ifelse", "less_than_int", "sleep">>

InnerAt(n) ==
    IF n < 5 THEN Atoms[n + 1]
    ELSE LET k == n - 5 IN Fn(Inner[1 + (k \div 25)], <<Atoms[1 + ((k \div 5) % 5)], Atoms[1 + (k % 5)]>>)

Binary(n) ==       \* n counts the functions, the atoms, the sides and the inner expressions.
    LET f == Outer[1 + (n % 12)]
        atom == Atoms[1 + ((n \div 12) % 4)]
        inner == InnerAt((n \div 96) % 80)
    IN Fn(f, IF (n \div 48) % 2 = 0 THEN <<inner, atom>> ELSE <<atom, inner>>)

Expressions ==
    [n \in 1..(12 * 4 * 2 * 80) |-> Binary(n - 1)]
    \o [n \in 1..(6 * 80) |-> Fn(Unary[1 + (n % 6)], <<InnerAt((n \div 6) % 80)>>)]
    \o [n \in 1..125 |->
           Fn("ifelse", <<Atoms[1 + (n % 5)], Atoms[1 + ((n \div 5) % 5)], Atoms[1 + ((n \div 25) % 5)]>>)]

\* The expectations of edify/main.c.
Test(e, r) == [expr |-> e, expect |-> r]
A == S("a")
B == S("b")
E == Lit(<<>>)
Abort == Fn("abort", <<>>)
V(x) == StringValue(x)
Cad == Lit(<<"c", "a", "d">>)
Abrac == Lit(<<"a", "b", "r", "a", "c">>)
Dabra == Lit(<<"d", "a", "b", "r", "a">>)
Tests == <<
    Test(Script(<<A, B, S("c")>>), V(<<"c">>)), Test(Fn("concat", <<A, B>>), V(<<"a", "b">>)),
    Test(Fn("concat", <<Fn("concat", <<A, B>>), S("c"), S("d")>>), V(<<"a", "b", "c", "d">>)),
    Test(Fn("&&", <<A, B>>), V(<<"b">>)), Test(Fn("&&", <<E, Abort>>), V(<<>>)),
    Test(Fn("&&", <<S("t"), Abort>>), NULL), Test(Fn("||", <<A, B>>), V(<<"a">>)),
    Test(Fn("||", <<E, B>>), V(<<"b">>)), Test(Fn("||", <<A, Abort>>), V(<<"a">>)),
    Test(Fn("||", <<E, Abort>>), NULL), Test(Fn("!", <<Fn("!", <<A>>)>>), V(<<"t">>)),
    Test(Fn("&&", <<Fn("==", <<E, E>>), B>>), V(<<"b">>)),
    Test(Fn("==", <<Fn("concat", <<A, B>>), Lit(<<"a", "b">>)>>), V(<<"t">>)),
    Test(Fn("concat", <<A, Fn("==", <<B, Lit(<<"a", "b">>)>>)>>), V(<<"a">>)),
    Test(Fn("is_substring", <<Cad, Lit(<<"a", "b", "r", "a", "c", "a", "d", "a", "b", "r", "a">>)>>), V(<<"t">>)),
    Test(Fn("is_substring", <<Abrac, Lit(<<"a", "x", "b", "r", "a", "c", "a", "d">>)>>), V(<<>>)),
    Test(Fn("is_substring", <<Dabra, Lit(<<"c", "a", "d", "a", "b", "r", "a">>)>>), V(<<"t">>)),
    Test(Fn("ifelse", <<S("t"), S("yes"), Abort>>), V(<<"yes">>)),
    Test(Fn("ifelse", <<Fn("!", <<S("t")>>), Abort, S("no")>>), V(<<"no">>)),
    Test(Fn("ifelse", <<E, S("yes")>>), V(<<>>)),
    Test(Fn("ifelse", <<Script(<<E, S("t")>>), S("yes")>>), V(<<"yes">>)),
    Test(Fn("less_than_int", <<S("3"), S("14")>>), V(<<"t">>)),
    Test(Fn("less_than_int", <<S("x"), S("3")>>), V(<<>>)),
    Test(Fn("greater_than_int", <<S("3"), S("14")>>), V(<<>>)),
    Test(Fn("greater_than_int", <<S("14"), S("3")>>), V(<<"t">>)),
    Test(Fn("greater_than_int", <<S("3"), S("x")>>), V(<<>>)) >>

Good == <<FullScript, IncrementalScript, BootScript, CarefulScript>>
Update == 1..Len(Good \o Mistakes)
Tested == {Len(Good \o Mistakes) + n : n \in DOMAIN Tests}
MCScripts == Good \o Mistakes \o [n \in DOMAIN Tests |-> Tests[n].expr] \o Expressions
MCExpected == [n \in Tested |-> Tests[n - Len(Good \o Mistakes)].expect]

MCIntOf == [n \in {"0", "1", "3", "14", "600", "700"} |->
               CASE n = "0" -> 0 [] n = "1" -> 1 [] n = "3" -> 3 [] n = "14" -> 14
                 [] n = "600" -> 384 [] n = "700" -> 448]
MCProps == (<<"k">> :> <<"v">>)
MCPropOf == ("k=v" :> [key |-> <<"k">>, value |-> <<"v">>])
MCComments == {"# c"}

Job(p, s, k, b) == [program |-> p, script |-> s, package |-> k, bad |-> b]
MCJobs ==
    {Job("edify", n, "good", {}) : n \in DOMAIN MCScripts \ Update}
    \cup {Job("update", n, "good", {}) : n \in Update}
    \cup {Job("update", Len(MCScripts), k, {}) : k \in {"bad zip", "no binary", "no script", "bad script"}}
    \cup {Job("update", 3, "good", b) : b \in MCBadBlocks}
    \cup {Job("flash_image", Len(MCScripts), "good", b) : b \in MCBadBlocks}
=============================================================================
