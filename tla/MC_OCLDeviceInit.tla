--------------------------- MODULE MC_OCLDeviceInit ---------------------------
(* Devices of three kinds and widths, fast and slow, with small and large  *)
(* constant buffers, in lists of one to three.                             *)
EXTENDS OCLDeviceInit

FastGpu  == Device(TRUE, FALSE, 64, TRUE, 4, 2, 2)
SlowGpu  == Device(TRUE, FALSE, 64, TRUE, 2, 1, 2)
Cpu      == Device(FALSE, TRUE, 64, TRUE, 3, 2, 2)
Gpu32    == Device(TRUE, FALSE, 32, TRUE, 5, 2, 2)
BigEnd   == Device(TRUE, FALSE, 64, FALSE, 5, 2, 2)
SmallCst == Device(TRUE, FALSE, 64, TRUE, 6, 2, 1)

MCDeviceLists ==
  {<<>>, <<FastGpu, SlowGpu>>, <<Cpu, FastGpu>>, <<Gpu32, BigEnd>>, <<SmallCst>>,
   <<SlowGpu, Cpu, Gpu32>>}
=============================================================================
