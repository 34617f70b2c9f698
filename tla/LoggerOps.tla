----------------------------- MODULE LoggerOps ------------------------------
(***************************************************************************)
(* LF_Logger of src/core/logger.c: operators on a record that holds the    *)
(* logger's settings, its buffer (a string: an arena and its characters)   *)
(* and the last line it printed.  A character is a member of a small set;  *)
(* the three letters of a level are the level's name, three times.         *)
(***************************************************************************)
EXTENDS StringOps

LF_DEBUG == 0
LF_FATAL == 4
level_strs == <<"DBG", "INF", "WAR", "ERR", "FAT">>
LevelStrSize == 3
ColoredLevelStrSize == 4       \* stands for 12, escape sequences included

Blank == " "
Newline == "\n"
Nul == "NUL"

LevelStr(lg, level) ==
  [i \in 1 .. IF lg.is_colored THEN ColoredLevelStrSize ELSE LevelStrSize |->
     level_strs[level + 1]]

(* "0000-00-00 00:00:00", when the time's format asks for nothing, or for   *)
(* more than a block.                                                      *)
NoTime == <<"0", "0">>
TimeText(time, room) == IF Len(time) \in 1 .. room - 1 THEN time ELSE NoTime
TimeStr(lg) == TimeText(lg.time, lg.buf.block_size)

(* lf_init_logger, at an address n; settings: min_level, is_colored, time.  *)
InitLogger(settings, n, char_qtt_in_block) ==
  [min_level |-> settings.min_level, is_colored |-> settings.is_colored,
   time |-> settings.time,
   buf |-> InitString(n, char_qtt_in_block),
   data |-> Clear(char_qtt_in_block),
   line |-> <<>>]

(* Characters copied to memory from p on; a string is cut off at the block's end. *)
CopiedTo(data, p, chars) ==
  [data EXCEPT ![p.block] = [o \in DOMAIN @ |->
     IF o - p.off + 1 \in DOMAIN chars THEN chars[o - p.off + 1] ELSE @[o]]]

Alloced(buf, size) == Some(AllocString(buf, Null, size)).arena

(* What fprintf makes of a block: its characters up to the first NUL.       *)
(* Without one it reads on beyond the block, whatever is there.             *)
Printed(chars) ==
  LET ends == {o \in DOMAIN chars : chars[o] = Nul}
  IN  IF ends = {} THEN <<Junk>> ELSE [i \in 1 .. Min(ends) |-> chars[i - 1]]

FitsWithoutNul(size, room) == size + 1 <= room   \* mutant: the NUL is written past the block
Fits(size, room) == size + 1 < room


(* lf_log of a message that is printed.  Time and level are allocated, the  *)
(* message is formatted into the head block behind what is allocated there. *)
(* Null: it does not fit and the assert stops the program.                  *)
LogLine(lg, level, msg) ==
  LET time    == TimeStr(lg)
      lvl     == <<Blank>> \o LevelStr(lg, level) \o <<Blank>>
      timed   == Alloced(ResetString(lg.buf), Len(time))
      leveled == Alloced(timed, Len(lvl))
      head    == leveled.block[leveled.head_block]
      Start(n) == [block |-> leveled.head_block, off |-> n]
      prefixed == CopiedTo(CopiedTo(lg.data, Start(0), time),
                           TailPtr(leveled, Len(lvl)), lvl)
      data == CopiedTo(prefixed, Start(head.right_offset), msg \o <<Newline, Nul>>)
  IN  IF ~Fits(Len(msg), head.size - head.right_offset) THEN Null
      ELSE [lg EXCEPT !.buf = Alloced(leveled, Len(msg) + 1),
                      !.data = data,
                      !.line = Printed(data[leveled.head_block])]

(* lf_log; a stopped program logs nothing. *)
Log(lg, level, msg) ==
  IF lg = Null THEN Null
  ELSE IF level < lg.min_level THEN lg
  ELSE LogLine(lg, level, msg)
=============================================================================
