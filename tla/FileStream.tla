------------------------------ MODULE FileStream ------------------------------
(* Seeking in a file, shared by the streams of src/lib.rs.                    *)
EXTENDS Integers

Whence == {"Start", "End", "Current"}

SeekFrom == {seek \in [whence : Whence, offset : Int] :
                seek.whence = "Start" => seek.offset >= 0}

\* Where a seek leads; the code computes it in i128, which cannot overflow.
SeekTarget(size, current, seek) ==
    CASE seek.whence = "Start"   -> seek.offset
      [] seek.whence = "End"     -> size + seek.offset
      [] seek.whence = "Current" -> current + seek.offset

Least(a, b) == IF a <= b THEN a ELSE b
Most(a, b) == IF a >= b THEN a ELSE b
=============================================================================
