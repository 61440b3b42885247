---------------------------- MODULE MCSemaphore ----------------------------
EXTENDS Semaphore

MCWorkloads == {{0, 1, 2}, {1}}
=============================================================================
