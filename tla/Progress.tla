------------------------------ MODULE Progress ------------------------------
(***************************************************************************)
(* The progress display of src/src/progress.c: the two meters taken from   *)
(* GNU wget, dots and rows in a log or a bar on a terminal, and the        *)
(* wrappers through which libcurl's progress callback drives them.         *)
(*                                                                         *)
(* _transfer_page makes a meter for each file, libcurl calls it back with  *)
(* the bytes received so far and those announced (0 for unknown, and not   *)
(* to be trusted), and it is finished when the transfer is over, well or   *)
(* badly.  The width of the screen is asked for when a meter is created,   *)
(* after the first image of the bar is drawn with the last one known.      *)
(***************************************************************************)
EXTENDS Integers, FiniteSetsExt

CONSTANTS
    DOT_BYTES,      \* the bytes of a dot: 1024
    DOTS_IN_LINE,   \* the dots of a row: 50
    Sizes,          \* Sizes[m]: the bytes a callback of meter m may report
    Totals,         \* Totals[m]: the bytes it may announce
    Times,          \* the times of the callbacks, in milliseconds
    Columns,        \* the widths the terminal may have
    None

Meters == {"dot", "bar"}

ASSUME ConstantsAssumption ==
    /\ DOT_BYTES \in Nat \ {0}
    /\ DOTS_IN_LINE \in Nat \ {0}
    /\ Sizes \in [Meters -> SUBSET Nat]
    /\ Totals \in [Meters -> SUBSET Nat]
    /\ Times \subseteq Nat
    /\ Columns \subseteq Nat

VARIABLES
    meter,          \* dot or bar: whether the output is a terminal
    pc,             \* none, waiting for a callback, in one, or finished
    call,           \* the arguments of the last callback, and its time
    data,           \* the meter has been created
    dllast,         \* the bytes of the callback before
    total_length,   \* of either meter: the wrappers take one struct for the other
    dot,            \* struct dot_progress
    bar,            \* struct bar_progress, with the size of its buffer
    screen_width,   \* kept from one transfer to the next
    image,          \* the image on the screen
    rated           \* history: the bytes a download speed was printed for

vars == <<meter, pc, call, data, dllast, total_length, dot, bar, screen_width,
          image, rated>>

DEFAULT_SCREEN_WIDTH == 80
MINIMUM_SCREEN_WIDTH == 45

RowBytes == DOT_BYTES * DOTS_IN_LINE

NoCall == [total |-> 0, now |-> 0, time |-> 0]
NoDots == [rows |-> 0, dots |-> 0, accumulated |-> 0]
NoBar == [count |-> 0, last_update |-> 0, width |-> 0, buffer |-> 0]

Init ==
    /\ meter \in Meters
    /\ pc = "none"
    /\ call = NoCall
    /\ data = FALSE
    /\ dllast = 0
    /\ total_length = 0
    /\ dot = NoDots
    /\ bar = NoBar
    /\ screen_width = DEFAULT_SCREEN_WIDTH
    /\ image = None
    /\ rated = 0

-----------------------------------------------------------------------------
(* The image of the bar.                                                   *)

\* The parts n is of total, rounded down.
Share(parts, n, total) ==
    parts * (n \div total) + (parts * (n % total)) \div total

Digits[n \in Nat] == IF n < 10 THEN 1 ELSE 1 + Digits[n \div 10]

\* The length of legible(n): a comma before every third digit.
Legible(n) == Digits[n] + (Digits[n] - 1) \div 3

\* create_image: the percentage and its space 4, the brackets 2, the size, the
\* rate 11, the time left 13 whatever it is; the rest is for the bar, which is
\* left out when less than 5.
Image(width, buffer, total, size) ==
    LET dlbytes_size == 1 + Max({Legible(size), 11})
        rest == width - (4 + 2 + dlbytes_size + 11 + 13)
        progress_size == IF rest < 5 THEN 0 ELSE rest
        dlsz == IF total > 0 THEN Share(progress_size, size, total) ELSE 0
        drawn == IF progress_size = 0 THEN 0
                 ELSE 2 + Max({dlsz, progress_size})
    IN  [size |-> size,
         percentage |-> IF total > 0 THEN Share(100, size, total) ELSE 0,
         dlsz |-> dlsz,
         progress_size |-> progress_size,
         length |-> 4 + drawn + dlbytes_size + 11 + IF total > 0 THEN 13 ELSE 0,
         width |-> width,
         buffer |-> buffer]

\* Mutant: a Content-Length too small is believed.
Believed(total, size) == total

\* A total that the transfer has exceeded is the size.
Corrected(total, size) == IF total > 0 /\ size > total THEN size ELSE total

-----------------------------------------------------------------------------
(* The wrappers of libcurl's callback.                                     *)

\* new_progress_callback.
New ==
    /\ pc \in {"none", "finished"}
    /\ pc' = "waiting"
    /\ call' = NoCall
    /\ data' = FALSE
    /\ dllast' = 0
    /\ rated' = 0
    /\ UNCHANGED <<meter, total_length, dot, bar, screen_width, image>>

\* dot_progress_callback and bar_progress_callback are called.
Callback(total, now, time) ==
    /\ pc = "waiting"
    /\ dllast <= now /\ call.time <= time
    /\ call' = [total |-> total, now |-> now, time |-> time]
    /\ pc' = IF data THEN "update" ELSE "create"
    /\ UNCHANGED <<meter, data, dllast, total_length, dot, bar, screen_width,
                   image, rated>>

\* bar_set_params: asks for the width of the screen.
SetParams ==
    \E columns \in Columns :
        screen_width' = IF columns >= MINIMUM_SCREEN_WIDTH
                        THEN columns ELSE DEFAULT_SCREEN_WIDTH

\* The first callback: dot_create or bar_create, of nothing downloaded before,
\* and then bar_set_params.
Create ==
    /\ pc = "create"
    /\ pc' = "update"
    /\ data' = TRUE
    /\ total_length' = call.total
    /\ \/ /\ meter = "dot"
          /\ dot' = NoDots
          /\ UNCHANGED <<bar, image>>
       \/ /\ meter = "bar"
          /\ bar' = [count |-> 0, last_update |-> 0,
                     width |-> screen_width - 1, buffer |-> screen_width]
          /\ image' = Image(bar'.width, bar'.buffer, call.total, 0)
          /\ UNCHANGED dot
    /\ SetParams
    /\ UNCHANGED <<meter, call, dllast, rated>>

-----------------------------------------------------------------------------
(* The dots.                                                               *)

\* Mutant: the callback forgets how far it was.
DotUpdateFromStart ==
    /\ pc = "update" /\ meter = "dot"
    /\ pc' = "dots"
    /\ total_length' = call.total
    /\ dot' = [dot EXCEPT !.accumulated = @ + call.now]
    /\ dllast' = call.now
    /\ UNCHANGED <<meter, call, data, bar, screen_width, image, rated>>

\* dot_update: what was received since the last call ...
DotUpdate ==
    /\ pc = "update" /\ meter = "dot"
    /\ pc' = "dots"
    /\ total_length' = call.total
    /\ dot' = [dot EXCEPT !.accumulated = @ + (call.now - dllast)]
    /\ dllast' = call.now
    /\ UNCHANGED <<meter, call, data, bar, screen_width, image, rated>>

\* Mutant: a dot for what is not a dot yet.
PrintDotEarly ==
    /\ pc = "dots"
    /\ dot.accumulated > 0
    /\ dot' = [dot EXCEPT !.accumulated = @ - DOT_BYTES,
                          !.dots = (@ + 1) % DOTS_IN_LINE]
    /\ UNCHANGED <<meter, pc, call, data, dllast, total_length, bar,
                   screen_width, image, rated>>

\* ... a dot for every DOT_BYTES of it, a speed at the end of a row ...
PrintDot ==
    /\ pc = "dots"
    /\ dot.accumulated >= DOT_BYTES
    /\ \/ /\ dot.dots + 1 < DOTS_IN_LINE
          /\ dot' = [rows |-> dot.rows, dots |-> dot.dots + 1,
                     accumulated |-> dot.accumulated - DOT_BYTES]
          /\ rated' = rated
       \/ /\ dot.dots + 1 >= DOTS_IN_LINE
          /\ dot' = [rows |-> dot.rows + 1, dots |-> 0,
                     accumulated |-> dot.accumulated - DOT_BYTES]
          /\ rated' = rated + RowBytes
    /\ UNCHANGED <<meter, pc, call, data, dllast, total_length, bar,
                   screen_width, image>>

\* ... until the next call.
DotUpdated ==
    /\ pc = "dots"
    /\ dot.accumulated < DOT_BYTES
    /\ pc' = "waiting"
    /\ UNCHANGED <<meter, call, data, dllast, total_length, dot, bar,
                   screen_width, image, rated>>

\* Mutant: the speed of whole dots only.
DotFinishWhole ==
    /\ pc = "waiting" /\ data /\ meter = "dot"
    /\ pc' = "finished"
    /\ rated' = rated + dot.dots * DOT_BYTES
    /\ UNCHANGED <<meter, call, data, dllast, total_length, dot, bar,
                   screen_width, image>>

\* dot_finish: the speed of the last row.
DotFinish ==
    /\ pc = "waiting" /\ data /\ meter = "dot"
    /\ pc' = "finished"
    /\ rated' = rated + dot.dots * DOT_BYTES + dot.accumulated
    /\ UNCHANGED <<meter, call, data, dllast, total_length, dot, bar,
                   screen_width, image>>

-----------------------------------------------------------------------------
(* The bar.                                                                *)

\* Mutant: the buffer is not reallocated.
BarUpdateInPlace ==
    LET count == bar.count + (call.now - dllast)
    IN
    /\ pc = "update" /\ meter = "bar"
    /\ pc' = "waiting"
    /\ dllast' = call.now
    /\ total_length' = Corrected(call.total, count)
    /\ bar' = [bar EXCEPT !.count = count, !.width = screen_width - 1]
    /\ image' = Image(screen_width - 1, bar.buffer, total_length', count)
    /\ UNCHANGED <<meter, call, data, dot, screen_width, rated>>

\* bar_update: draws five times a second, or when the screen is of another
\* width than the bar.
BarUpdate ==
    LET count == bar.count + (call.now - dllast)
        total == Corrected(call.total, count)
        width == screen_width - 1
        resized == width # bar.width
        draws == call.time - bar.last_update >= 200 \/ resized
        buffer == IF resized THEN width + 1 ELSE bar.buffer
    IN
    /\ pc = "update" /\ meter = "bar"
    /\ pc' = "waiting"
    /\ dllast' = call.now
    /\ total_length' = total
    /\ bar' = [count |-> count, width |-> width, buffer |-> buffer,
               last_update |-> IF draws THEN call.time ELSE bar.last_update]
    /\ image' = IF draws THEN Image(width, buffer, total, count) ELSE image
    /\ UNCHANGED <<meter, call, data, dot, screen_width, rated>>

\* Mutant: what was drawn last is taken to be the end.
BarFinishQuietly ==
    /\ pc = "waiting" /\ data /\ meter = "bar"
    /\ pc' = "finished"
    /\ total_length' = Corrected(total_length, bar.count)
    /\ UNCHANGED <<meter, call, data, dllast, dot, bar, screen_width, image,
                   rated>>

\* bar_finish: draws whatever the time.
BarFinish ==
    /\ pc = "waiting" /\ data /\ meter = "bar"
    /\ pc' = "finished"
    /\ total_length' = Corrected(total_length, bar.count)
    /\ image' = Image(bar.width, bar.buffer, total_length', bar.count)
    /\ UNCHANGED <<meter, call, data, dllast, dot, bar, screen_width, rated>>

\* A transfer without a callback: destroy_progress_callback has nothing to finish.
Discard ==
    /\ pc = "waiting" /\ ~data
    /\ pc' = "finished"
    /\ UNCHANGED <<meter, call, data, dllast, total_length, dot, bar,
                   screen_width, image, rated>>

-----------------------------------------------------------------------------
Next ==
    \/ New
    \/ \E total \in Totals[meter], now \in Sizes[meter], time \in Times :
          Callback(total, now, time)
    \/ Create
    \/ DotUpdate \/ PrintDot \/ DotUpdated \/ DotFinish
    \/ BarUpdate \/ BarFinish
    \/ Discard

Spec == Init /\ [][Next]_vars

-----------------------------------------------------------------------------
\* The types of the variables.
TypeOK ==
    /\ meter \in Meters
    /\ pc \in {"none", "waiting", "create", "update", "dots", "finished"}
    /\ call \in [total : Nat, now : Nat, time : Nat]
    /\ data \in BOOLEAN
    /\ dllast \in Nat /\ total_length \in Nat /\ rated \in Nat
    /\ dot \in [rows : Nat, dots : Nat, accumulated : Nat]
    /\ bar \in [count : Nat, last_update : Nat, width : Nat, buffer : Nat]
    /\ screen_width \in Nat
    /\ image # None => image.length \in Nat /\ image.dlsz \in Nat

\* Rows, dots and rest add up to the bytes received, however they came: the
\* "nnnK" a row begins with is where it is (progress.c:489-521 and 958-979).
DotsAccount ==
    data /\ meter = "dot" =>
        /\ dot.rows * RowBytes + dot.dots * DOT_BYTES + dot.accumulated = dllast
        /\ dot.dots < DOTS_IN_LINE
        /\ pc = "waiting" => dot.accumulated < DOT_BYTES

\* The speeds printed at the end of the rows are those of all the bytes of the
\* transfer, each once (progress.c:505-518 and 549-554).
SpeedsCover == pc = "finished" /\ data /\ meter = "dot" => rated = dllast

\* No image is longer than the bar or the buffer it is drawn in, whatever the
\* screen is resized to between transfers, and no bar leaves its brackets
\* (asserts, progress.c:746 and 849).
ImageFits ==
    image # None =>
        /\ image.length <= image.width
        /\ image.width + 1 <= image.buffer
        /\ image.dlsz <= image.progress_size

\* Whatever a server announces, no image shows more than the whole (assert,
\* progress.c:728).
NeverBeyond == image # None => image.percentage <= 100

\* The image that stays on the screen shows the bytes that were received, though
\* most images of a fast transfer are skipped (progress.c:646-679).
LastImageTells ==
    pc = "finished" /\ data /\ meter = "bar" => image.size = dllast

=============================================================================
