--------------------------- MODULE MCDownloadPool ---------------------------
(* Two PDFs and an image (file 3) under names of their own.                *)
EXTENDS DownloadPool

CONSTANTS p1, p2, p3, q3, w1, w2

MCPaths == {p1, p2, p3, q3}
MCWorkers == {w1, w2}
MCLocalPath == <<p1, p2, p3>>
MCMergePath == <<p1, p2, q3>>

\* Two files, the second an image.
MCPaths2 == {p1, p2, q3}
MCLocalPath2 == <<p1, p2>>
MCMergePath2 == <<p1, q3>>

\* Two files of one name: Drive lets a folder hold them.
MCSamePath == <<p1, p1>>
=============================================================================
