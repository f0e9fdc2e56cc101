---------------------------- MODULE MCAdminConsole ----------------------------
\* A loss, an income that ends in the first slab that is taxed, and one that
\* reaches the last.
EXTENDS AdminConsole

MCNets == {0 - 3, 4, 57}
=============================================================================
