------------------------------ MODULE Updater ------------------------------
(***************************************************************************)
(* The installation of a package: recovery extracts the update binary and    *)
(* runs it, the binary evaluates the script of the package, and recovery     *)
(* shows what arrives on the pipe and takes the exit status for the result.  *)
(* The functions of the script work on the file tree and on a raw partition, *)
(* any of their system calls may fail, and power may fail at any moment, and  *)
(* recovery begins again then.                                               *)
(*                                                                           *)
(* A path is a sequence of components, "/" first if it is absolute.  /system  *)
(* is the file system of partition "system", the rest of the tree is in      *)
(* memory.  Partition "boot" is the one of module Mtd.                       *)
(***************************************************************************)
EXTENDS Edify, Mtd, TLC

CONSTANTS
    Jobs,          \* What may run: [program, script, package, bad].
    Archive,       \* The entries of the package, sorted: [name, data].
    OldDisk,       \* /system before the installation.
    Ram,           \* The rest of the tree after a start of recovery.
    Props,         \* The system properties.
    PropOf,        \* The key and the value of the lines that have them.
    Comments,      \* The lines of property files that are comments or blank.
    Patches,       \* What a patch makes of a file, where it applies.
    Goal,          \* What a script is for: the tree of "system", and if it writes "boot".
    Expected,      \* What the tests of edify expect of an expression.
    PipeSize,      \* Bound on the lines in the pipe.
    MaxRestarts    \* Bound on power failures and on further attempts.

VARIABLES
    program,       \* "update", or "flash_image" or "edify" when they run by themselves.
    package,       \* "good", or what is wrong with the package.
    parent,        \* try_update_binary(): "start", "reading" or "done".
    child,         \* The update binary.
    status,        \* What install_package() returned.
    restarts,
    screen,        \* The last line of the pipe that was handled.
    pipe,
    mounted,       \* How "system" is mounted: "no", "rw" or "ro".
    disk,          \* The tree of "system".
    ram,           \* The tree in memory.
    saved,         \* The copy that apply_patch() keeps on /cache.
    work,          \* The function that is under way and where it is.
    lost           \* The failures of this attempt that its functions did not report.

procVars == <<program, package, parent, child, status, restarts, screen>>
fsVars == <<mounted, disk, ram>>
vars == <<procVars, pipe, fsVars, saved, work, lost, evalVars, mtdVars>>

None == <<"none">>
Idle == [op |-> "none", step |-> "-", next |-> 1, data |-> <<>>]
Working(op, step, data) == work' = [op |-> op, step |-> step, next |-> 1, data |-> data]

-----------------------------------------------------------------------------
(* The file tree. *)

Dir == [kind |-> "dir", data |-> <<>>, perm |-> "755"]
File(d) == [kind |-> "file", data |-> d, perm |-> "644"]
Link(p) == [kind |-> "link", data |-> p, perm |-> "777"]

NoCopy == [kind |-> "none", data |-> None, perm |-> "-"]

Sys == <<"/", "system">>
Under(p, q) == IsPrefix(q, p)
Below(t, q) == {p \in DOMAIN t : Under(p, q)}
Without(t, ps) == Restrict(t, DOMAIN t \ ps)

Tree == IF mounted = "no" THEN ram ELSE disk @@ Without(ram, Below(ram, Sys))

Store(t) ==
    IF mounted = "no" THEN ram' = t /\ UNCHANGED <<disk, mounted>>
    ELSE /\ disk' = Restrict(t, Below(t, Sys))
         /\ ram' = Without(t, Below(t, Sys)) @@ Restrict(ram, Below(ram, Sys))
         /\ UNCHANGED mounted

Writable(p) == Under(p, Sys) => mounted # "ro"
Follow(t, p) == IF p \in DOMAIN t /\ t[p].kind = "link" THEN t[p].data ELSE p
Is(kind, t, p) == Follow(t, p) \in DOMAIN t /\ t[Follow(t, p)].kind = kind
Exists(t, p) == p \in DOMAIN t
Unlinkable(t, p) == Exists(t, p) /\ t[p].kind # "dir" /\ Writable(p)

CanCreate(t, p) == Len(p) > 1 /\ Is("dir", t, Front(p)) /\ Writable(p) /\ ~Is("dir", t, p)
Create(t, p) ==
    LET q == Follow(t, p)
    IN IF Exists(t, q) THEN [t EXCEPT ![q].data = <<>>] ELSE (q :> File(<<>>)) @@ t
Write(t, p, d) == [Create(t, p) EXCEPT ![Follow(t, p)].data = d]

\* The directories above p that dirCreateHierarchy(p, .., true) makes, and if it can.
Above(p) == {SubSeq(p, 1, n) : n \in 1..(Len(p) - 1)}
MissingDirs(t, p) == {q \in Above(p) : ~Exists(t, q)}
dirCreateHierarchy(t, p, made) == [q \in made |-> Dir] @@ t
CanMakeDirs(t, p) ==
    /\ \A q \in Above(p) : Exists(t, q) => Is("dir", t, q)
    /\ \A q \in MissingDirs(t, p) : Writable(q)

\* What may be left of the tree below p when its removal stops half way.
PartlyRemoved(t, p) ==
    {Without(t, gone) : gone \in
        {s \in SUBSET (Below(t, p) \ {p}) : \A q \in s : Below(t, q) \subseteq s}}

-----------------------------------------------------------------------------
(* Calls of the install functions. *)

InstallFns ==
    {"mount", "is_mounted", "unmount", "format", "show_progress", "set_progress", "delete",
     "delete_recursive", "package_extract_dir", "package_extract_file", "symlink", "set_perm",
     "set_perm_recursive", "getprop", "file_getprop", "write_raw_image", "apply_patch",
     "apply_patch_check", "apply_patch_space", "read_file", "sha1_check", "ui_print",
     "run_program"}

\* The checks of argc.
ArgsOK(f, argc) ==
    CASE f = "mount" -> argc = 3
      [] f \in {"format", "show_progress", "package_extract_dir"} -> argc = 2
      [] f \in {"is_mounted", "unmount", "set_progress", "getprop", "read_file"} -> argc = 1
      [] f = "package_extract_file" -> argc \in 1..2
      [] f \in {"symlink", "apply_patch_check", "run_program", "sha1_check"} -> argc >= 1
      [] f = "set_perm" -> argc >= 4
      [] f = "set_perm_recursive" -> argc >= 5
      [] f = "apply_patch" -> argc >= 6 /\ argc % 2 = 0
      [] OTHER -> TRUE

\* The arguments that are evaluated: not all of them where argc is not looked at.
Needed(f, argc) ==
    CASE f \in {"file_getprop", "write_raw_image"} -> 2
      [] f = "apply_patch_space" -> 1
      [] OTHER -> argc

Running == child.st = "evaluating" /\ work.op = "none" /\ Evaluating
Argc == Len(Here.args)
Arg(i) == Given[i].data
BeginsWithInt(s) == s # <<>> /\ s[1] \in DOMAIN IntOf

\* ReadArgs() and its like; apply_patch() looks at its size before it goes on to the patches.
ReadsArgs ==
    /\ Running /\ Here.fn \in InstallFns
    /\ IF ~ArgsOK(Here.fn, Argc) THEN Fails("args")
       ELSE /\ Len(Given) < Needed(Here.fn, Argc)
            /\ IF Here.fn = "apply_patch" /\ Len(Given) = 4 /\ ~BeginsWithInt(Arg(4))
               THEN Fails("call") ELSE Descend(Len(Given) + 1)
    /\ UNCHANGED <<procVars, pipe, fsVars, saved, work, lost, mtdVars>>

Ready(f) ==
    Running /\ Here.fn = f /\ ArgsOK(f, Argc) /\ Len(Given) = Needed(f, Argc)

Result(s) == Returns(StringValue(s))
Loses(what) == lost' = lost \cup {what}
True == <<"t">>
False == <<>>
OnlyEvaluates == UNCHANGED <<procVars, pipe, fsVars, saved, work, lost, mtdVars>>
MtdBut_faults == UNCHANGED <<flash, bad, ctx, gaveUp, badWrites, fi>>

-----------------------------------------------------------------------------
(* Mounting. *)

\* mtd_mount_partition() falls back to a read-only mount, which is a success; and it fails
\* after mounting when the permissions of the root cannot be looked at or changed.
MountFn ==
    /\ Ready("mount")
    /\ IF \E i \in 1..3 : Arg(i) = <<>> THEN Fails("call") /\ NoFault /\ UNCHANGED fsVars
       ELSE LET p == Arg(3)
                tree == IF CanCreate(Tree, p) THEN (p :> Dir) @@ Tree ELSE Tree
                there == Arg(1) = <<"MTD">> /\ Arg(2) = <<"system">> /\ p = Sys /\ mounted = "no"
            IN IF there THEN
                   /\ ram' = tree /\ UNCHANGED disk
                   /\ \/ NoFault /\ mounted' = "rw" /\ Result(p)
                      \/ Fault /\ mounted' = "ro" /\ Result(p)
                      \/ Fault /\ mounted' \in {"no", "rw"} /\ Result(<<>>)
               ELSE Store(tree) /\ Result(<<>>) /\ NoFault
    /\ UNCHANGED <<procVars, pipe, saved, work, lost>> /\ MtdBut_faults

IsMountedFn ==
    /\ Ready("is_mounted")
    /\ IF Arg(1) = <<>> THEN Fails("call")
       ELSE Result(IF Arg(1) = Sys /\ mounted # "no" THEN Arg(1) ELSE <<>>)
    /\ OnlyEvaluates

\* What umount() returns is not looked at.
UnmountFn ==
    /\ Ready("unmount")
    /\ IF Arg(1) = <<>> THEN Fails("call") /\ NoFault /\ UNCHANGED mounted
       ELSE IF Arg(1) = Sys /\ mounted # "no" THEN
           /\ Result(Arg(1))
           /\ \/ NoFault /\ mounted' = "no"
              \/ Fault /\ UNCHANGED mounted
       ELSE Result(<<>>) /\ NoFault /\ UNCHANGED mounted
    /\ UNCHANGED <<procVars, pipe, disk, ram, saved, work, lost>> /\ MtdBut_faults

\* Only file systems are formatted here, so the partition is "system".
FormatFn ==
    /\ Ready("format")
    /\ IF \E i \in 1..2 : Arg(i) = <<>> THEN Fails("call") /\ NoFault /\ UNCHANGED work
       ELSE IF Arg(1) # <<"MTD">> THEN Fails("-") /\ NoFault /\ UNCHANGED work
       ELSE IF Arg(2) # <<"system">> THEN Result(<<>>) /\ NoFault /\ UNCHANGED work
       ELSE \/ NoFault /\ Working("format", "erase", Arg(2)) /\ UNCHANGED evalVars
            \/ Fault /\ Result(<<>>) /\ UNCHANGED work
    /\ UNCHANGED <<procVars, pipe, fsVars, saved, lost>> /\ MtdBut_faults

\* mtd_erase_blocks() goes on after a block that cannot be erased and does not tell.
FormatEnds ==
    /\ work.op = "format"
    /\ \/ /\ NoFault /\ disk' = (Sys :> Dir) /\ Result(work.data) /\ UNCHANGED lost
       \/ /\ Fault /\ disk' \in PartlyRemoved(disk, Sys) /\ Result(work.data) /\ Loses("format")
       \/ /\ Fault /\ disk' \in {disk, Sys :> Dir} /\ Result(<<>>) /\ UNCHANGED lost
    /\ work' = Idle
    /\ UNCHANGED <<procVars, pipe, mounted, ram, saved>> /\ MtdBut_faults

-----------------------------------------------------------------------------
(* Files. *)

\* The result is the number of paths removed, so it is true even if it is 0.
DeleteFn ==
    /\ Ready("delete")
    /\ LET paths == {Arg(i) : i \in 1..Argc}
           there == {p \in paths : Unlinkable(Tree, p)}
       IN \E gone \in SUBSET there :
          /\ IF gone = there THEN NoFault ELSE Fault /\ Cardinality(there \ gone) = 1
          /\ Store(Without(Tree, gone)) /\ Result(<<ToString(Cardinality(gone))>>)
          /\ IF gone = paths \cap DOMAIN Tree THEN UNCHANGED lost ELSE Loses("delete")
    /\ UNCHANGED <<procVars, pipe, saved, work>> /\ MtdBut_faults

\* dirUnlinkHierarchy() stops at the first failure.
DeleteRecursiveFn ==
    /\ Ready("delete_recursive") /\ Argc = 1
    /\ LET p == Arg(1) IN
       IF ~Exists(Tree, p) THEN Store(Tree) /\ Result(<<"0">>) /\ NoFault /\ UNCHANGED lost
       ELSE LET busy == {q \in {Sys} : p = Sys /\ mounted # "no"} IN
            \/ /\ Writable(p) /\ NoFault /\ Store(Without(Tree, Below(Tree, p) \ busy))
               /\ IF busy = {} THEN Result(<<"1">>) /\ UNCHANGED lost ELSE Result(<<"0">>) /\ Loses("delete")
            \/ /\ ~Writable(p) /\ NoFault /\ Store(Tree) /\ Result(<<"0">>) /\ Loses("delete")
            \/ /\ Writable(p) /\ Fault /\ Result(<<"0">>) /\ Loses("delete")
               /\ \E t \in PartlyRemoved(Tree, p) : Store(t)
    /\ UNCHANGED <<procVars, pipe, saved, work>> /\ MtdBut_faults

\* unlink() and symlink() of every path after the first argument; failures are only logged.
\* Where unlink() fails symlink() finds the old file there and fails too: no link is made, and
\* the file stays.  Where only symlink() fails the file is gone.
CanLink(t, p) ==
    Len(p) > 1 /\ Is("dir", t, Front(p)) /\ Writable(p) /\ (Exists(t, p) => Unlinkable(t, p))

SymlinkFn ==
    /\ Ready("symlink")
    /\ LET paths == {Arg(i) : i \in 2..Argc}
           able == {p \in paths : CanLink(Tree, p)}
       IN \E failed \in {{}} \cup {{p} : p \in able} : \E gone \in SUBSET failed :
          /\ IF failed = {} THEN NoFault ELSE Fault
          /\ Store([p \in able \ failed |-> Link(Arg(1))] @@ Without(Tree, gone))
          /\ IF able \ failed = paths THEN UNCHANGED lost ELSE Loses("symlink")
    /\ Result(<<>>)
    /\ UNCHANGED <<procVars, pipe, saved, work>> /\ MtdBut_faults

\* chown() and chmod(), which follow links; dirSetHierarchyPermissions(), which does not,
\* and which stops at a failure.  Neither failure is reported.
Chmod(t, ps, mode) ==
    [p \in DOMAIN t |-> IF p \in ps THEN [t[p] EXCEPT !.perm = mode[t[p].kind]] ELSE t[p]]

SetPerms(able, stopped, wanted, mode) ==
    \E set \in {able} \cup stopped :
       /\ IF set = able THEN NoFault ELSE Fault
       /\ Store(Chmod(Tree, set, mode)) /\ Result(<<>>)
       /\ IF set = wanted THEN UNCHANGED lost ELSE Loses("perm")

SetPermFn ==
    /\ Ready("set_perm")
    /\ IF \E i \in 1..3 : ~IsInt(Given[i]) THEN Fails("call") /\ NoFault /\ UNCHANGED <<fsVars, lost>>
       ELSE LET paths == {Follow(Tree, Arg(i)) : i \in 4..Argc}
                mode == [dir |-> Arg(3)[1], file |-> Arg(3)[1]]
                able == {p \in paths \cap DOMAIN Tree : Writable(p)}
            IN SetPerms(able, {able \ {p} : p \in able}, paths, mode)
    /\ UNCHANGED <<procVars, pipe, saved, work>> /\ MtdBut_faults

SetPermRecursiveFn ==
    /\ Ready("set_perm_recursive")
    /\ IF \E i \in 1..4 : ~IsInt(Given[i]) THEN Fails("call") /\ NoFault /\ UNCHANGED <<fsVars, lost>>
       ELSE LET paths == {Arg(i) : i \in 5..Argc}
                mode == [dir |-> Arg(3)[1], file |-> Arg(4)[1]]
                all == {p \in UNION {Below(Tree, q) : q \in paths} : Tree[p].kind # "link"}
                able == {p \in all : Writable(p)}
                stopped == {s \in SUBSET able \ {able} : \A p \in s : Above(p) \cap able \subseteq s}
            IN SetPerms(able, stopped, all \cup {p \in paths : ~Exists(Tree, p)}, mode)
    /\ UNCHANGED <<procVars, pipe, saved, work>> /\ MtdBut_faults

-----------------------------------------------------------------------------
(* The package. *)

Named(name) == {e \in Range(Archive) : e.name = name}

\* mzExtractRecursive() for the entries below zip_path, with the checks of its arguments.
Entries(zip_path) == SelectSeq(Archive, LAMBDA e : Under(e.name, zip_path) /\ e.name # zip_path)

PackageExtractDirFn ==
    /\ Ready("package_extract_dir")
    /\ IF (Arg(1) # <<>> /\ Arg(1)[1] = "/") \/ Arg(2) = <<>> \/ Arg(2)[1] # "/"
       THEN Result(False) /\ UNCHANGED work
       ELSE Working("extract", "create", Given) /\ UNCHANGED evalVars
    /\ UNCHANGED <<procVars, pipe, fsVars, saved, lost, mtdVars>>

Extracting(step) == work.op = "extract" /\ work.step = step
ToExtract == Entries(work.data[1].data)
Entry == ToExtract[work.next]
TargetFile == work.data[2].data \o SubSeq(Entry.name, Len(work.data[1].data) + 1, Len(Entry.name))

\* The directories of the entry and creat(): their failures are returned.
ExtractCreates ==
    /\ Extracting("create") /\ work.next <= Len(ToExtract)
    /\ LET dirs == MissingDirs(Tree, TargetFile)
           able == CanMakeDirs(Tree, TargetFile)
           made(ps) == dirCreateHierarchy(Tree, TargetFile, ps)
       IN \/ /\ able /\ CanCreate(made(dirs), TargetFile) /\ NoFault
             /\ Store(Create(made(dirs), TargetFile))
             /\ work' = [work EXCEPT !.step = "write"] /\ UNCHANGED evalVars
          \/ /\ IF able /\ CanCreate(made(dirs), TargetFile) THEN Fault ELSE NoFault
             /\ \E ps \in {{}, dirs} : (ps # {} => able) /\ Store(made(ps))
             /\ work' = Idle /\ Result(False)
    /\ UNCHANGED <<procVars, pipe, saved, lost>> /\ MtdBut_faults

\* The contents and the time of the file.  When the contents cannot be written, or utime()
\* fails on the whole file, the loop ends, but the "ok" that is cleared is the one of the block,
\* and the result is true.
ExtractWrites ==
    /\ Extracting("write")
    /\ \/ /\ NoFault /\ Store(Write(Tree, TargetFile, Entry.data))
          /\ work' = [work EXCEPT !.step = "create", !.next = @ + 1]
          /\ UNCHANGED <<lost, evalVars>>
       \/ /\ Fault /\ \E data \in {<<"torn">>, Entry.data} : Store(Write(Tree, TargetFile, data))
          /\ work' = Idle /\ Result(True) /\ Loses("extract")
    /\ UNCHANGED <<procVars, pipe, saved>> /\ MtdBut_faults

ExtractEnds ==
    /\ Extracting("create") /\ work.next > Len(ToExtract)
    /\ work' = Idle /\ Result(True)
    /\ UNCHANGED <<procVars, pipe, fsVars, saved, lost, mtdVars>>

\* With one argument the result is the contents, of size -1 if there are none.
NoContents == <<"size -1">>

ExtractFileResult(ok) == IF ok THEN True ELSE False

PackageExtractFileFn ==
    /\ Ready("package_extract_file")
    /\ IF Argc = 1 THEN
           /\ \/ NoFault /\ Returns(IF Named(Arg(1)) = {} THEN Blob(NoContents)
                                    ELSE Blob((CHOOSE e \in Named(Arg(1)) : TRUE).data))
              \/ Fault /\ Returns(Blob(NoContents))
           /\ UNCHANGED fsVars
       ELSE LET p == Arg(2) IN
            IF Named(Arg(1)) = {} \/ ~CanCreate(Tree, p)
            THEN NoFault /\ Result(ExtractFileResult(FALSE)) /\ UNCHANGED fsVars
            ELSE \/ /\ NoFault /\ Result(ExtractFileResult(TRUE))
                    /\ \E e \in Named(Arg(1)) : Store(Write(Tree, p, e.data))
                 \/ /\ Fault /\ Result(ExtractFileResult(FALSE))
                    /\ \E t \in {Tree, Write(Tree, p, <<"torn">>)} : Store(t)
    /\ UNCHANGED <<procVars, pipe, saved, work, lost>> /\ MtdBut_faults

-----------------------------------------------------------------------------
(* The raw partition. *)

WriteRawImageFn ==
    /\ Ready("write_raw_image")
    /\ IF Arg(1) = <<>> \/ Arg(2) = <<>> THEN Fails("call") /\ NoFault /\ UNCHANGED <<work, ctx>>
       ELSE IF Arg(2) # <<"boot">> \/ ~Is("file", Tree, Arg(1))
       THEN Result(<<>>) /\ NoFault /\ UNCHANGED <<work, ctx>>
       ELSE \/ /\ NoFault /\ ctx' = mtd_write_partition /\ UNCHANGED evalVars
               /\ Working("raw", "copy", Tree[Follow(Tree, Arg(1))].data)
            \/ Fault /\ Result(<<>>) /\ UNCHANGED <<work, ctx>>
    /\ UNCHANGED <<procVars, pipe, fsVars, saved, lost, flash, bad, gaveUp, badWrites, fi>>

Writing(step) == work.op = "raw" /\ work.step = step /\ ctx.st \in {"open", "failed"}
RawGoes(step) == work' = [work EXCEPT !.step = step]

\* The loop over the file.  A read error ends it like the end of the file does.  next is 0
\* when success is false.
RawCopies ==
    /\ Writing("copy")
    /\ \/ /\ ctx.st = "open" /\ work.next <= Len(work.data)
          /\ mtd_write_data(work.data[work.next]) /\ NoFault
          /\ work' = [work EXCEPT !.next = @ + 1] /\ UNCHANGED lost
       \/ /\ ctx.st = "open" /\ work.next <= Len(work.data)
          /\ Fault /\ Loses("read") /\ RawGoes("erase") /\ UNCHANGED ctx
       \/ /\ ctx.st = "open" /\ work.next > Len(work.data)
          /\ NoFault /\ RawGoes("erase") /\ UNCHANGED <<lost, ctx>>
       \/ /\ ctx.st = "failed" /\ NoFault /\ ctx' = [ctx EXCEPT !.st = "open"]
          /\ work' = [work EXCEPT !.step = "erase", !.next = 0] /\ UNCHANGED lost
    /\ UNCHANGED <<procVars, pipe, fsVars, saved, evalVars, flash, bad, gaveUp, badWrites, fi>>

\* mtd_erase_blocks(ctx, -1): what is stored, then the rest of the partition.
RawErases ==
    /\ Writing("erase")
    /\ IF ctx.st = "failed" THEN
           RawGoes("close") /\ ctx' = [ctx EXCEPT !.st = "open"] /\ NoFault /\ UNCHANGED flash
       ELSE IF ctx.stored # <<>> THEN FlushStored /\ NoFault /\ UNCHANGED <<work, flash>>
       ELSE /\ RawGoes("close") /\ UNCHANGED ctx
            /\ \/ NoFault /\ EraseRest({})
               \/ Fault /\ \E b \in Block : EraseRest({b})
    /\ UNCHANGED <<procVars, pipe, fsVars, saved, lost, evalVars, bad, gaveUp, badWrites, fi>>

\* mtd_write_close() tries again to write what is stored.  The result does not depend on
\* that, nor on mtd_erase_blocks().
RawImageResult_partition(wrote) == <<"boot">>
RawImageResult(wrote) == IF wrote THEN <<"boot">> ELSE <<>>

RawCloses ==
    /\ Writing("close")
    /\ IF ctx.st = "open" /\ ctx.stored # <<>>
       THEN FlushStored /\ UNCHANGED <<work, lost, evalVars>>
       ELSE /\ ctx' = Closed /\ work' = Idle
            /\ Result(RawImageResult(work.next # 0))
            /\ IF work.next # 0 /\ ctx.st = "failed" THEN Loses("tail") ELSE UNCHANGED lost
    /\ NoFault
    /\ UNCHANGED <<procVars, pipe, fsVars, saved, flash, bad, gaveUp, badWrites, fi>>

\* write_block() on behalf of write_raw_image() or of flash_image.
WritesBlock ==
    /\ write_block
    /\ UNCHANGED <<procVars, pipe, fsVars, saved, work, lost, evalVars>>

-----------------------------------------------------------------------------
(* Reading. *)

GetPropFn ==
    /\ Ready("getprop")
    /\ Result(IF Arg(1) \in DOMAIN Props THEN Props[Arg(1)] ELSE <<>>)
    /\ OnlyEvaluates

\* The first line that is neither a comment nor for another key: the value of the key, or a
\* line without "=".
FileGetPropFn ==
    /\ Ready("file_getprop")
    /\ LET lines == Tree[Follow(Tree, Arg(1))].data
           skipped(l) == l \in Comments \/ (l \in DOMAIN PropOf /\ PropOf[l].key # Arg(2))
           rest == SelectSeq(lines, LAMBDA l : ~skipped(l))
       IN IF ~Is("file", Tree, Arg(1)) THEN Fails("call") /\ NoFault /\ UNCHANGED child
          ELSE \/ Fault /\ Fails("call") /\ UNCHANGED child
               \/ /\ NoFault /\ lines = <<>>       \* strtok() returns NULL, which is read.
                  /\ child' = [st |-> "killed", code |-> 0] /\ UNCHANGED evalVars
               \/ /\ NoFault /\ lines # <<>> /\ UNCHANGED child
                  /\ IF rest = <<>> THEN Result(<<>>)
                     ELSE IF rest[1] \in DOMAIN PropOf THEN Result(PropOf[rest[1]].value)
                     ELSE Fails("call")
    /\ UNCHANGED <<program, package, parent, status, restarts, screen, pipe, fsVars, saved, work, lost>>
    /\ MtdBut_faults

Sha(data) == <<"sha">> \o data

ReadFileFn ==
    /\ Ready("read_file")
    /\ IF ~Is("file", Tree, Arg(1)) THEN Fails("call") /\ NoFault
       ELSE \/ NoFault /\ Returns(Blob(Tree[Follow(Tree, Arg(1))].data))
            \/ Fault /\ Fails("call")
    /\ UNCHANGED <<procVars, pipe, fsVars, saved, work, lost>> /\ MtdBut_faults

\* Arguments that are not strings or not a digest are skipped.
Sha1CheckFn ==
    /\ Ready("sha1_check")
    /\ IF Given[1] = Blob(NoContents) THEN Result(<<>>)
       ELSE IF Argc = 1 THEN Result(Sha(Arg(1)))
       ELSE Result(IF StringValue(Sha(Arg(1))) \in {Given[i] : i \in 2..Argc}
                   THEN Sha(Arg(1)) ELSE <<>>)
    /\ OnlyEvaluates

\* The status is the one of waitpid(), as a number; the program itself changes nothing here.
RunProgramFn ==
    /\ Ready("run_program")
    /\ \E exit \in {"0", "256"} :
          (exit = "0" => Is("file", Tree, Arg(1))) /\ Result(<<exit>>)
    /\ OnlyEvaluates

-----------------------------------------------------------------------------
(* Patches, with applypatch() as far as its callers can tell: the source is copied to /cache
   and removed only when there is no room for the target beside it.  Module ApplyPatch has
   the details. *)

ApplyPatchSpaceFn ==
    /\ Ready("apply_patch_space")
    /\ IF ~BeginsWithInt(Arg(1)) THEN Fails("call") /\ NoFault
       ELSE \/ NoFault /\ Result(True)
            \/ Fault /\ Result(False)
    /\ UNCHANGED <<procVars, pipe, fsVars, saved, work, lost>> /\ MtdBut_faults

\* applypatch_check(): the file, or the copy of a file whose patch was interrupted.
applypatch_check_file(p, shas) == Is("file", Tree, p) /\ (shas = {} \/ Sha(Tree[Follow(Tree, p)].data) \in shas)

applypatch_check(p, shas) ==
    \/ applypatch_check_file(p, shas)
    \/ saved # NoCopy /\ Sha(saved.data) \in shas

ApplyPatchCheckFn ==
    /\ Ready("apply_patch_check")
    /\ \/ NoFault /\ Result(IF applypatch_check(Arg(1), {Arg(i) : i \in 2..Argc}) THEN True ELSE False)
       \/ Fault /\ Result(False)
    /\ UNCHANGED <<procVars, pipe, fsVars, saved, work, lost>> /\ MtdBut_faults

Source == Arg(1)
Target == IF Arg(2) = <<"-">> THEN Arg(1) ELSE Arg(2)
PatchFile == [Target EXCEPT ![Len(Target)] = @ \o ".patch"]
Contents(p) == IF Is("file", Tree, p) THEN Tree[Follow(Tree, p)].data ELSE None

\* The patch of the first digest that data has; none if there is no such digest.
PatchFor(data) ==
    LET fits == {i \in 5..Argc : i % 2 = 1 /\ data # None /\ Arg(i) = Sha(data)}
    IN IF fits = {} THEN None ELSE Arg(1 + CHOOSE i \in fits : \A j \in fits : i <= j)
FromSource == PatchFor(Contents(Source)) # None
SourceToUse == IF FromSource THEN Tree[Follow(Tree, Source)] ELSE saved
Patched ==
    LET key == <<SourceToUse.data, PatchFor(SourceToUse.data)>>
    IN IF key \in DOMAIN Patches THEN Patches[key] ELSE None

ApplyPatchFn ==
    /\ Ready("apply_patch")
    /\ IF \E i \in 5..Argc : Given[i].type # (IF i % 2 = 1 THEN "string" ELSE "blob")
       THEN Fails("call") /\ NoFault /\ UNCHANGED work
       ELSE IF Sha(Contents(Target)) = Arg(3) THEN Result(True) /\ NoFault /\ UNCHANGED work
       ELSE IF ~FromSource /\ PatchFor(saved.data) = None THEN Result(False) /\ NoFault /\ UNCHANGED work
       ELSE \/ Working("patch", "space", <<SourceToUse.perm>> \o Patched) /\ NoFault /\ UNCHANGED evalVars
            \/ Fault /\ (FromSource => PatchFor(saved.data) = None) /\ Result(False) /\ UNCHANGED work
    /\ UNCHANGED <<procVars, pipe, fsVars, saved, lost>> /\ MtdBut_faults

Patching(step) == work.op = "patch" /\ work.step = step
PatchGoes(step) == work' = [work EXCEPT !.step = step] /\ UNCHANGED evalVars
Output == Tail(work.data)       \* work.data begins with the mode of the source.
PatchFails == work' = Idle /\ Result(False)

\* Enough space, or a copy and then unlink() of the source.  next is 2 when
\* there was none or the first try failed, 3 when a copy was made: no other try then.
PatchMakesSpace ==
    /\ Patching("space")
    /\ \/ /\ work.next = 1 /\ NoFault /\ PatchGoes("write") /\ UNCHANGED saved
       \/ /\ ~FromSource /\ NoFault /\ UNCHANGED <<evalVars, saved>>
          /\ work' = [work EXCEPT !.step = "write", !.next = 2]
       \/ /\ FromSource /\ NoFault /\ saved' = SourceToUse /\ UNCHANGED evalVars
          /\ work' = [work EXCEPT !.step = "unlink", !.next = 3]
       \/ FromSource /\ Fault /\ PatchFails /\ UNCHANGED saved
    /\ UNCHANGED <<procVars, pipe, fsVars, lost>> /\ MtdBut_faults

PatchUnlinks ==
    /\ Patching("unlink") /\ PatchGoes("write")
    /\ Store(IF Writable(Source) THEN Without(Tree, {Source}) ELSE Tree)
    /\ UNCHANGED <<procVars, pipe, saved, lost, mtdVars>>

\* The output goes to a file beside the target.  If that cannot be opened there is no other try.
PatchWrites ==
    /\ Patching("write")
    /\ IF ~CanCreate(Tree, PatchFile) \/ Output = None THEN
           /\ PatchFails /\ NoFault
           /\ Store(IF CanCreate(Tree, PatchFile) THEN Create(Tree, PatchFile) ELSE Tree)
       ELSE \/ NoFault /\ PatchGoes("rename") /\ Store(Write(Tree, PatchFile, Output))
            \/ Fault /\ PatchFails /\ Store(Tree)
            \/ /\ Fault /\ work.next = 1 /\ Store(Without(Tree, {PatchFile})) /\ UNCHANGED evalVars
               /\ work' = [work EXCEPT !.step = "space", !.next = 2]
            \/ Fault /\ work.next > 1 /\ PatchFails /\ Store(Write(Tree, PatchFile, <<"torn">>))
    /\ UNCHANGED <<procVars, pipe, saved, lost>> /\ MtdBut_faults

\* The digest of the output, its permissions, rename(), and then the copy goes.
PatchRenames ==
    /\ Patching("rename")
    /\ IF Sha(Output) # Arg(3) THEN PatchFails /\ NoFault /\ Store(Tree) /\ UNCHANGED saved
       ELSE \/ /\ NoFault /\ work' = Idle /\ Result(True)
               /\ Store((Target :> [File(Output) EXCEPT !.perm = work.data[1]]) @@ Without(Tree, {PatchFile, Target}))
               /\ saved' = IF work.next = 3 THEN NoCopy ELSE saved
            \/ Fault /\ PatchFails /\ Store(Tree) /\ UNCHANGED saved
    /\ UNCHANGED <<procVars, pipe, lost>> /\ MtdBut_faults

-----------------------------------------------------------------------------
(* The pipe to recovery. *)

Says(lines) == Len(pipe) + Len(lines) <= PipeSize /\ pipe' = pipe \o lines

ShowProgressFn ==
    /\ Ready("show_progress") /\ Says(<<"progress">>) /\ Result(Arg(1))
    /\ UNCHANGED <<procVars, fsVars, saved, work, lost, mtdVars>>

SetProgressFn ==
    /\ Ready("set_progress") /\ Says(<<"set_progress">>) /\ Result(Arg(1))
    /\ UNCHANGED <<procVars, fsVars, saved, work, lost, mtdVars>>

\* A line for the text, if there is any, and an empty one.
UIPrintFn ==
    /\ Ready("ui_print")
    /\ LET text == FoldLeft(LAMBDA s, v : s \o v.data, <<>>, Given) IN
       Says(IF text = <<>> THEN <<"ui_print">> ELSE <<"ui_print text", "ui_print">>) /\ Result(text)
    /\ UNCHANGED <<procVars, fsVars, saved, work, lost, mtdVars>>

-----------------------------------------------------------------------------
(* The update binary and recovery. *)

Child(st, code) == child' = [st |-> st, code |-> code]

CallsBuiltinFn ==
    /\ Running /\ CallsBuiltin /\ OnlyEvaluates

\* delete(), apply_patch() and apply_patch_check() do not just return NULL when an argument
\* after the first ones is NULL.  The two last read through the NULL of their list.
\* delete() never advances j, so it frees paths[0] again and again.
ReadsNull ==
    \/ Parent.fn = "apply_patch" /\ Last(at) > 4
    \/ Parent.fn = "apply_patch_check" /\ Last(at) > 1
FreesTwice == Parent.fn \in {"delete", "delete_recursive"} /\ Last(at) > 1

Unwinds ==
    /\ child.st = "evaluating" /\ (at # <<>> => ~ReadsNull) /\ Unwind /\ OnlyEvaluates

IsKilled ==
    /\ child.st = "evaluating" /\ unwinding /\ at # <<>> /\ (ReadsNull \/ FreesTwice)
    /\ Child("killed", 0)
    /\ UNCHANGED <<program, package, parent, status, restarts, screen, pipe, fsVars, saved, work, lost, evalVars, mtdVars>>

\* main() of the update binary up to Evaluate().
main ==
    /\ child.st = "main"
    /\ \/ /\ package = "no script" /\ NoFault /\ Child("exited", 4) /\ UNCHANGED evalVars
       \/ /\ package # "no script" /\ Fault /\ UNCHANGED evalVars
          /\ \E code \in {3, 5} : Child("exited", code)
       \/ /\ package = "bad script" /\ NoFault /\ Child("exited", 6) /\ UNCHANGED evalVars
       \/ /\ package = "good" /\ NoFault /\ Child("evaluating", 0) /\ StartsEvaluating
    /\ UNCHANGED <<program, package, parent, status, restarts, screen, pipe, fsVars, saved, work, lost>>
    /\ MtdBut_faults

\* main() after Evaluate(), with the message of a script that was aborted.
main_ends ==
    /\ child.st = "evaluating" /\ result # Nothing /\ program = "update"
    /\ IF result = NULL THEN
           /\ Child("exited", 7)
           /\ Says(IF errmsg = "NULL" THEN <<"ui_print text">> ELSE <<"ui_print text", "ui_print">>)
       ELSE Child("exited", 0) /\ UNCHANGED pipe
    /\ UNCHANGED <<program, package, parent, status, restarts, screen, fsVars, saved, work, lost, evalVars, mtdVars>>

InstallReturns(s) == parent' = "done" /\ status' = s

\* install_package() and try_update_binary() up to the loop.  fork() is not checked: without
\* a child the pipe is at its end and the status is the one waitpid() does not write.
install_package ==
    /\ program = "update" /\ parent = "start"
    /\ \/ /\ package \in {"bad zip", "no binary"} /\ NoFault
          /\ InstallReturns("INSTALL_CORRUPT") /\ UNCHANGED <<child, lost>>
       \/ /\ Fault /\ \E s \in {"INSTALL_CORRUPT", "INSTALL_ERROR"} : InstallReturns(s)
          /\ UNCHANGED <<child, lost>>
       \/ /\ package \notin {"bad zip", "no binary"} /\ Fault /\ Loses("fork") /\ UNCHANGED child
          /\ \E s \in {"INSTALL_SUCCESS", "INSTALL_ERROR"} : InstallReturns(s)
       \/ /\ package \notin {"bad zip", "no binary"} /\ NoFault
          /\ parent' = "reading" /\ Child("main", 0) /\ UNCHANGED <<status, lost>>
    /\ UNCHANGED <<program, package, restarts, screen, pipe, fsVars, saved, work, evalVars>>
    /\ MtdBut_faults

\* The loop of try_update_binary(): progress bar, text, or a complaint.
try_update_binary_reads ==
    /\ parent = "reading" /\ pipe # <<>>
    /\ screen' = Head(pipe) /\ pipe' = Tail(pipe)
    /\ UNCHANGED <<program, package, parent, child, status, restarts, fsVars, saved, work, lost, evalVars, mtdVars>>

\* The end of the pipe, and waitpid().
ExitStatus(c) == IF c.st = "exited" /\ c.code = 0 THEN "INSTALL_SUCCESS" ELSE "INSTALL_ERROR"

try_update_binary_waits ==
    /\ parent = "reading" /\ pipe = <<>> /\ child.st \in {"exited", "killed"}
    /\ InstallReturns(ExitStatus(child)) /\ Child("none", 0)
    /\ UNCHANGED <<program, package, restarts, screen, pipe, fsVars, saved, work, lost, evalVars, mtdVars>>

\* Another attempt, from the menu, after one that failed: what is mounted stays mounted.
install_again ==
    /\ parent = "done" /\ status # "INSTALL_SUCCESS" /\ program = "update" /\ restarts < MaxRestarts
    /\ parent' = "start" /\ status' = "none" /\ restarts' = restarts + 1 /\ lost' = {}
    /\ work' = Idle /\ ctx' = Closed
    /\ UNCHANGED <<program, package, child, screen, pipe, fsVars, saved, evalVars, flash, bad, gaveUp, faults, badWrites, fi>>

\* Power fails and recovery installs again, or flash_image runs again.  A file that was being
\* written has a part of its contents, a partition being formatted a part of its files.
TornDisk ==
    IF work.op = "format" THEN PartlyRemoved(disk, Sys)
    ELSE IF Extracting("write") /\ mounted # "no"
    THEN {disk, [disk EXCEPT ![Follow(disk, TargetFile)].data = <<"torn">>]}
    ELSE {disk}

PowerFails ==
    /\ restarts < MaxRestarts /\ restarts' = restarts + 1
    /\ (program = "update" /\ parent = "reading") \/ program = "flash_image"
    /\ flash' \in TornFlash /\ disk' \in TornDisk
    /\ ctx' = Closed /\ fi' = [pc |-> "start", next |-> 1]
    /\ parent' = "start" /\ Child("none", 0) /\ status' = "none" /\ screen' = "-" /\ pipe' = <<>>
    /\ mounted' = "no" /\ ram' = Ram /\ work' = Idle /\ lost' = {}
    /\ StartsEvaluating
    /\ UNCHANGED <<program, package, saved, bad, gaveUp, faults, badWrites>>

FlashImage ==
    /\ program = "flash_image" /\ flash_image
    /\ UNCHANGED <<procVars, pipe, fsVars, saved, work, lost, evalVars>>

-----------------------------------------------------------------------------
Init ==
    /\ \E job \in Jobs :
          program = job.program /\ script = job.script /\ package = job.package /\ bad = job.bad
    /\ EvalInit /\ MtdInit
    /\ parent = "start" /\ status = "none" /\ restarts = 0 /\ screen = "-" /\ pipe = <<>>
    /\ child = [st |-> IF program = "edify" THEN "evaluating" ELSE "none", code |-> 0]
    /\ mounted = "no" /\ disk = OldDisk /\ ram = Ram /\ saved = NoCopy
    /\ work = Idle /\ lost = {}

\* The functions that return at once, or begin their work.
InstallFn ==
    /\ Running /\ Here.fn \in InstallFns /\ Len(Given) = Needed(Here.fn, Argc)
    /\ \/ MountFn \/ IsMountedFn \/ UnmountFn \/ FormatFn
       \/ DeleteFn \/ DeleteRecursiveFn \/ SymlinkFn \/ SetPermFn \/ SetPermRecursiveFn
       \/ PackageExtractDirFn \/ PackageExtractFileFn \/ WriteRawImageFn
       \/ GetPropFn \/ FileGetPropFn \/ ReadFileFn \/ Sha1CheckFn \/ RunProgramFn
       \/ ApplyPatchSpaceFn \/ ApplyPatchCheckFn \/ ApplyPatchFn
       \/ ShowProgressFn \/ SetProgressFn \/ UIPrintFn

\* The steps of those that take longer.
Work ==
    /\ work.op # "none"
    /\ \/ FormatEnds \/ ExtractCreates \/ ExtractWrites \/ ExtractEnds
       \/ RawCopies \/ RawErases \/ RawCloses
       \/ PatchMakesSpace \/ PatchUnlinks \/ PatchWrites \/ PatchRenames

Steps ==
    \/ ReadsArgs \/ CallsBuiltinFn \/ Unwinds \/ IsKilled \/ InstallFn \/ Work
    \/ WritesBlock \/ FlashImage
    \/ main \/ main_ends
    \/ install_package \/ try_update_binary_reads \/ try_update_binary_waits

Next == Steps \/ install_again \/ PowerFails

\* An installation goes on; nothing makes power fail or the user try again.
Installs == program = "update" /\ Steps
Spec == Init /\ [][Next]_vars /\ WF_vars(Installs)

-----------------------------------------------------------------------------
(* Properties. *)

\* Every variable has its type.
TypeOK ==
    /\ EvalTypeOK /\ MtdTypeOK
    /\ parent \in {"start", "reading", "done"}
    /\ child.st \in {"none", "main", "evaluating", "exited", "killed"} /\ child.code \in 0..7
    /\ status \in {"none", "INSTALL_SUCCESS", "INSTALL_ERROR", "INSTALL_CORRUPT"}
    /\ mounted \in {"no", "rw", "ro"}
    /\ \A p \in DOMAIN disk : Under(p, Sys) /\ disk[p].kind \in {"dir", "file", "link"}
    /\ \A p \in DOMAIN ram : ram[p].kind \in {"dir", "file", "link"}
    /\ lost \subseteq {"fork", "format", "delete", "extract", "symlink", "perm", "read", "tail"}
    /\ Len(pipe) <= PipeSize /\ restarts \in 0..MaxRestarts

\* main(): an installation that is reported as a success has left what its script is for,
\* through every order of failing calls, power failures and further attempts, unless one of
\* the failures that the install functions are known not to report happened in it, or
\* write_block() gave a block up.
SuccessIsComplete ==
    status = "INSTALL_SUCCESS" /\ lost = {} /\ ~gaveUp /\ script \in DOMAIN Goal =>
        /\ disk = Goal[script].disk
        /\ Goal[script].raw => mtd_read_data(Len(Image)) = Image

\* flash_image: how far "skip writing if the header is the same" can be trusted.  At every
\* moment at which the partition begins with the header of an image of more than one block,
\* whatever failed before, all that follows the first block is the image, and the first block
\* holds a beginning of the image and nothing of an older one.  The beginning is shorter than
\* the block when power failed in the last write of all, the one of the first block, or after
\* that write failed and before it was tried again: then the next flash_image finds the header,
\* skips, and the rest of the block, erased or garbage, is never repaired.  No property says
\* otherwise: the header vouches for the blocks after its own only.
HeaderLast ==
    program = "flash_image" /\ ~gaveUp /\ BlockSize < Len(Image) /\ mtd_read_data(1) = <<Image[1]>> =>
        \E n \in 1..BlockSize, rest \in {"erased", "garbage"} :
            mtd_read_data(Len(Image))
                = [k \in 1..Len(Image) |-> IF n < k /\ k <= BlockSize THEN rest ELSE Image[k]]

CanBeInstalled ==
    /\ program = "update" /\ package = "good" /\ script \in DOMAIN Goal
    /\ Len(Image) <= BlockSize * Cardinality(Block \ bad)

\* The script of a good package installs in the end, however often power fails and although
\* blocks fail once, if no other call fails and the image fits.
Reinstalls == [](faults = 0 /\ ~gaveUp /\ CanBeInstalled) => <>(status = "INSTALL_SUCCESS")
=============================================================================
