------------------------- MODULE MCDownloadProgress -------------------------
EXTENDS DownloadProgress, TLC

\* Two bytes and one; Drive tells the truth, nothing, or too little.
MCLength == 1 :> 2 @@ 2 :> 1
MCSizes  == {MCLength, 1 :> 0 @@ 2 :> 0, 1 :> 1 @@ 2 :> 0}
=============================================================================
