---------------------------- MODULE MCPublishing ----------------------------
(* Publishing with a flow of the shape of examples/flows/upload-video.json. *)
EXTENDS Publishing, TLC

\* The two jobs are alike.
Symmetry == Permutations(Jobs)

Tap(optional, effect) ==
    [action |-> "tap", optional |-> optional, effect |-> effect, after |-> FALSE]
Other(action, after) ==
    [action |-> action, optional |-> FALSE, effect |-> "none", after |-> after]

\* A dialog that may not come, the gallery, the caption, the post, the spinner, the toast.
UploadFlow == <<Tap(TRUE, "none"), Tap(FALSE, "pick"), Other("wait", FALSE),
                Other("type", FALSE), Tap(FALSE, "post"), Other("assertGone", FALSE),
                Other("assertVisible", TRUE)>>
=============================================================================
