--------------------------- MODULE MCCatalogStore ---------------------------
EXTENDS CatalogStore

CONSTANTS f1, f2, f3, s1

MCUploads == {f1, f2, f3}
MCUnfit   == {f3}
MCName    == [f \in {f1, f2, f3, s1} |-> IF f = f2 THEN 2 ELSE 1]
First     == [file |-> f1, order |-> 1]
MCBatches == {<<>>, <<First>>, <<First, [file |-> f3, order |-> 2]>>}
MCFolders == {<<[file |-> s1, order |-> 1]>>}
Empty     == {<<>>}
NoFolders == {}
=============================================================================
