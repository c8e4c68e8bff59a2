------------------------------ MODULE Syscalls ------------------------------
(***************************************************************************)
(* The system calls of syscall.rs, from the number and the words in the    *)
(* caller's registers to what it gets back, and the start of a program by  *)
(* create_process.  Calls that only block or stop the caller (Exit, Sleep, *)
(* Yield) act in Scheduler and TaskMemory, which also has the frames that  *)
(* execve gives back and takes.                                            *)
(*                                                                         *)
(*   root   the calling task's address space                               *)
(*   last   the call that was made: what it was given, and its outcome r,  *)
(*          which is the value returned, the bytes printed (by address),   *)
(*          the bytes written for the caller, the program loaded, and      *)
(*          whether the kernel panicked                                    *)
(*                                                                         *)
(* A caller c has a slot (0 is the kernel's shell) and a user id.  A       *)
(* volume v is what execve finds for its path.  No call depends on an      *)
(* earlier one, so one call is made.                                       *)
(***************************************************************************)
EXTENDS Integers, UserCopy, Loader

CONSTANTS
  MAX_WRITE_LEN,   \* 256
  TABLE_LEN,       \* 256
  MAX_TASKS,       \* slots of the task table
  INFO_LEN,        \* bytes of a MemoryInfo or TaskInfo answer: 24
  MAX_EXEC,        \* the largest file execve accepts: 1 MiB
  HEAP_LEN,        \* the kernel's heap: 64 KiB
  Files,           \* ELF files and others
  Volumes          \* states of the file system

ASSUME SyscallsAssumption ==
  \A n \in {MAX_WRITE_LEN, TABLE_LEN, MAX_TASKS, INFO_LEN, MAX_EXEC, HEAP_LEN} : n \in Nat

VARIABLES root, last

callVars == <<root, last>>

ENOENT == -2
ENOEXEC == -8
ENOMEM == -12
EPERM == -13
EFAULT == -14
EINVAL == -22
ENOSYS == -38

\* The calls by number; the rest of the table is empty.
Calls ==
  <<"Write", "Exit", "Sleep", "Read", "GetPid", "Yield", "GetTime", "GetUptime", "Version",
    "KernelInfo", "MemoryInfo", "TaskInfo", "DebugLog", "Execve">>
SYSCALL_TABLE == [n \in 0..(Len(Calls) - 1) |-> Calls[n + 1]]

required_uid(call) == IF call = "DebugLog" THEN {0} ELSE Nat

NoProgram == [segs |-> <<>>, pages |-> <<>>, frames |-> <<>>]
Returns(v) ==
  [ret |-> v, out |-> <<>>, wrote |-> <<>>, program |-> NoProgram, panic |-> FALSE]
Panics == [Returns(0) EXCEPT !.panic = TRUE]

\* Mutant of print_user: what could be copied is printed.
print_user_part(c, buf, len) ==
  IF c.task = 0 THEN [Returns(len) EXCEPT !.out = Bytes(buf, buf + len)]
  ELSE LET copy == copy_from_user(root, buf, len) IN
       [Returns(IF copy.ok THEN len ELSE EFAULT) EXCEPT !.out = copy.bytes]

\* The two calls that print: the shell's bytes are read where they are, a task's are
\* copied first, and nothing is printed unless all of them could be.
print_user(c, buf, len) ==
  IF c.task = 0 THEN [Returns(len) EXCEPT !.out = Bytes(buf, buf + len)]
  ELSE LET copy == copy_from_user(root, buf, len) IN
       IF copy.ok THEN [Returns(len) EXCEPT !.out = copy.bytes] ELSE Returns(EFAULT)

syscall_write(c, buf, len) ==
  IF len > MAX_WRITE_LEN THEN Returns(-1) ELSE print_user(c, buf, len)

syscall_debuglog(c, buf, len) ==
  IF len > MAX_WRITE_LEN THEN Returns(EINVAL) ELSE print_user(c, buf, len)

\* The two calls that answer in memory know only how to write to the kernel's own.
syscall_memoryinfo(c, buf) ==
  IF c.task = 0 THEN [Returns(0) EXCEPT !.wrote = Bytes(buf, buf + INFO_LEN)]
  ELSE Returns(EFAULT)

syscall_taskinfo(c, pid, buf) ==
  IF pid >= MAX_TASKS THEN Returns(EINVAL) ELSE syscall_memoryinfo(c, buf)

\* The path: the shell's is read where it is, a task's is copied.
path_error(c, path, v) ==
  IF c.task = 0 THEN IF v.utf8 THEN 0 ELSE ENOEXEC
  ELSE IF copy_from_user_cstr(root, v.nuls, path, CSTR_BUF).ok THEN 0 ELSE EFAULT

\* Mutant of read_whole: a short read is not an error.
read_whole_or_part(v) == v.read >= 0

\* read_file_data has returned as many bytes as the entry's size.
read_whole(v) == v.read = v.file.len

\* Each step that fails returns before the next, and the last one replaces the program:
\* not that of the shell, whose slot replace_address_space refuses.  For a file
\* that is larger than the heap there is no buffer, and the kernel panics.
syscall_execve(c, path, v) ==
  LET image == parse_elf(v.file)
      pages == create_user_page_tables(image.segs)
  IN  IF path_error(c, path, v) # 0 THEN Returns(path_error(c, path, v))
      ELSE IF ~v.mounted \/ ~v.readdir \/ v.entry # "file" THEN Returns(ENOENT)
      ELSE IF v.file.len = 0 \/ v.file.len > MAX_EXEC THEN Returns(ENOEXEC)
      ELSE IF v.file.len > HEAP_LEN THEN Panics
      ELSE IF ~read_whole(v) THEN Returns(ENOEXEC)
      ELSE IF image.err = "panic" THEN Panics
      ELSE IF image.err # "none" THEN Returns(ENOEXEC)
      ELSE IF c.task = 0 THEN Returns(ENOMEM)
      ELSE [Returns(0) EXCEPT !.program =
              [segs |-> image.segs, pages |-> pages,
               frames |-> replace_address_space(v.file, image.segs, pages)]]

handler(call, c, a0, a1, v) ==
  CASE call = "Write" -> syscall_write(c, a0, a1)
    [] call = "DebugLog" -> syscall_debuglog(c, a0, a1)
    [] call = "MemoryInfo" -> syscall_memoryinfo(c, a0)
    [] call = "TaskInfo" -> syscall_taskinfo(c, a0, a1)
    [] call = "Execve" -> syscall_execve(c, a0, v)
    [] call = "GetPid" -> Returns(c.task)
    [] OTHER -> Returns(0)

dispatch(num, c, a0, a1, v) ==
  IF num >= TABLE_LEN \/ num \notin DOMAIN SYSCALL_TABLE THEN Returns(ENOSYS)
  ELSE LET call == SYSCALL_TABLE[num] IN
       IF c.uid \notin required_uid(call) THEN Returns(EPERM)
       ELSE handler(call, c, a0, a1, v)

-----------------------------------------------------------------------------
Idle == [op |-> "none"]
Shell == [task |-> 0, uid |-> 0]
Callers == {Shell} \union [task : {1}, uid : {0, 1}]
Numbers == DOMAIN SYSCALL_TABLE \union {TABLE_LEN - 1, TABLE_LEN}
Execve == 13

CallInit == root \in Roots /\ last = Idle

Did(call) == last' = call /\ UNCHANGED root

\* A system call other than execve ...
syscall(num, c, a0, a1) ==
  /\ num # Execve
  /\ Did([op |-> "syscall", num |-> num, c |-> c, a0 |-> a0, a1 |-> a1,
          r |-> dispatch(num, c, a0, a1, Idle)])

\* ... and execve.
execve(c, path, v) ==
  Did([op |-> "execve", c |-> c, v |-> v, r |-> dispatch(Execve, c, path, 0, v)])

\* The copies, as linux_compat.rs calls them.
copy_in(ptr, len) ==
  Did([op |-> "copy_from_user", ptr |-> ptr, len |-> len,
       r |-> copy_from_user(root, ptr, len)])
copy_out(ptr, len) ==
  Did([op |-> "copy_to_user", ptr |-> ptr, len |-> len, r |-> copy_to_user(root, ptr, len)])
copy_string(ptr, nul) ==
  Did([op |-> "copy_from_user_cstr", ptr |-> ptr, nul |-> nul,
       r |-> copy_from_user_cstr(root, {nul}, ptr, CSTR_BUF)])

\* create_process and spawn_userspace_task: parse, map, copy.
start_process(f) ==
  LET image == parse_elf(f)
      pages == create_user_page_tables(image.segs)
      program == [segs |-> image.segs, pages |-> pages,
                  frames |-> create_process(image.segs, pages)]
  IN  Did([op |-> "create_process", file |-> f, image |-> image,
           program |-> IF image.segs = <<>> THEN NoProgram ELSE program,
           panic |-> image.err = "panic" \/ create_process_panics(f, image.segs, pages)])

\* The calls that depend on the caller's memory, and those on files.
MemoryCalls ==
  /\ last = Idle
  /\ \/ \E num \in Numbers, c \in Callers, a0 \in Addrs, a1 \in 0..(MAX_WRITE_LEN + 1) :
          syscall(num, c, a0, a1)
     \/ \E ptr \in Addrs, len \in 0..(ADDRS + 1) : copy_in(ptr, len) \/ copy_out(ptr, len)
     \/ \E ptr, nul \in Addrs : copy_string(ptr, nul)

FileCalls ==
  /\ last = Idle
  /\ \/ \E c \in Callers, path \in Addrs, v \in Volumes : execve(c, path, v)
     \/ \E f \in Files : start_process(f)

-----------------------------------------------------------------------------
\* "They walk the calling task's page tables to confirm the entire [ptr, ptr+len)
\* range" (usercopy.rs:6-7): over every layout of user, kernel and absent pages, a
\* copy succeeds exactly for ranges of the task's own bytes, copies that range,
\* and touches no byte of anybody else, also when it fails half way.  (It does not
\* "validate the entire range first", line 53: the pages before the bad one
\* have been copied, which copy_to_user's caller can see.)
UserCopyExact ==
  LET own == OwnBytes(root) IN
  CASE last.op = "copy_from_user" -> CopyIs(own, last.r, last.ptr, last.len, MAX_USER_COPY)
    [] last.op = "copy_to_user" -> CopyIs(own, last.r, last.ptr, last.len, last.len)
    [] last.op = "copy_from_user_cstr" -> StringIs(own, last.r, last.ptr, last.nul)
    [] OTHER -> TRUE

NoEffect(r) == r.out = <<>> /\ r.wrote = <<>> /\ r.program = NoProgram

\* What a call tells its caller is what it did, over every layout of the caller's
\* memory and every argument.  A call that returns an error has printed nothing and
\* written nothing; Write and DebugLog that succeed have printed exactly the
\* bytes passed, whose number is the result; a user's call uses no byte that is
\* not the user's; and only root's DebugLog prints.
CallsHonest ==
  last.op = "syscall" =>
    LET r == last.r IN
    /\ r.ret < 0 => NoEffect(r)
    /\ last.num \in {0, 12} /\ r.ret >= 0 =>
         r.ret = last.a1 /\ r.out = Bytes(last.a0, last.a0 + last.a1)
    /\ last.c.task # 0 =>
         r.wrote = <<>> /\ \A i \in 1..Len(r.out) : r.out[i] \in OwnBytes(root)
    /\ last.num = 12 /\ last.c.uid # 0 => r.ret = EPERM

\* execve fails before it has destroyed anything ("copy path from userspace BEFORE
\* destroying address space", line 274): every error of the path, the volume, the
\* file or its headers leaves the program in place, and the shell's is never
\* replaced, so that its "run" command (shell.rs:181-193) cannot succeed.  The
\* kernel survives every file, except one that passes the size check and not
\* the heap, and one whose header table wraps.
ExecveAllOrNothing ==
  last.op = "execve" =>
    LET r == last.r
        f == last.v.file
    IN  /\ r.ret < 0 => NoEffect(r)
        /\ r.ret = 0 /\ ~r.panic => last.c # Shell /\ last.v.read = f.len /\ last.v.entry = "file"
        /\ r.panic => f.len \in (HEAP_LEN + 1)..MAX_EXEC \/ f.phoff > f.len

\* parse_elf accepts exactly the files whose headers are right and in the file, and
\* returns exactly their PT_LOAD segments, whatever the table's place, entry
\* size and length; only a table at the end of the address space makes it panic.
ParseExact ==
  last.op = "create_process" => ParseIs(last.file, last.image)

\* What create_process and spawn_userspace_task load: of every segment that starts on
\* a page boundary the first page, bytes and zero fill right, and no byte in a
\* wrong place.  The built-in programs (elf_builder) are of that form; of a
\* larger program the other pages are zero.
FirstPagesLoaded ==
  last.op = "create_process" /\ ~last.panic =>
    LET p == last.program IN
    \A a \in Span(p.segs) :
      ByteAt(p.pages, p.frames, a) =
        IF a \in FirstPages(p.segs) THEN Expected(p.segs, a) ELSE 0

\* After execve the program's stack page is a frame of its own exactly when every
\* segment starts on a page boundary: the loop that looks for the frame after the
\* last segment stops early at a segment that does not, and the stack then is
\* the frame of that segment's first page.
ExecStackApart ==
  last.op = "execve" /\ last.r.program # NoProgram =>
    LET p == last.r.program IN
    Aligned(p.segs) <=> exec_stack_frame(p.segs, p.pages) \notin 1..(Len(p.pages) - 1)

\* "The caller must copy the data when mapping into page tables" (elf.rs:64-65), "Step
\* 4: Copy ELF data into mapped pages" (task.rs:535): after execve of a program whose
\* segments start on page boundaries its pages have its bytes.
ExecLoadsProgram ==
  last.op = "execve" /\ Aligned(last.r.program.segs) =>
    LET p == last.r.program IN
    \A a \in Span(p.segs) : ByteAt(p.pages, p.frames, a) = Expected(p.segs, a)
=============================================================================
