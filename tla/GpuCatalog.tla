----------------------------- MODULE GpuCatalog -----------------------------
(***************************************************************************)
(* The GPUs of the catalog (data/hardware.py): megabytes, megabytes per    *)
(* second and billions of operations per second, to the nearest.  Names,   *)
(* prices, power and the sizes in which systems are sold are left out; a   *)
(* planner bandwidth replaces the published one.                           *)
(***************************************************************************)
EXTENDS Integers, TLC

(* GPU_FP4_FLOPS *)
Fp4Rate ==
  ("RTXPRO6000_BSE" :> 2000000) @@ ("RTXPRO6000_BW_WS" :> 2015200) @@
  ("RTXPRO5000_BW_72" :> 1071000) @@ ("RTX5090" :> 1676000) @@
  ("DGX_SPARK" :> 500000) @@ ("GB200" :> 10000000) @@
  ("B200" :> 9000000) @@ ("B300" :> 15000000) @@
  ("GB300" :> 15000000) @@ ("DGX_STATION_GB300" :> 15000000) @@
  ("JETSON_AGX_THOR" :> 1035000) @@ ("MI350X" :> 9200000) @@
  ("MI355X" :> 10100000) @@ ("MI455X" :> 40300000) @@
  ("HELIOS_MI455X" :> 40300000) @@ ("MI400" :> 40300000)

(* A node of GPUs whose links carry peer in both directions; between nodes, *)
(* a network of 200 Gb/s for each GPU.                                      *)
GpuCard(key, vendor, mem, bw, bf16, fp8, peer, node) ==
  [ key |-> key, vendor |-> vendor, mem |-> mem, bw |-> bw, bf16 |-> bf16, fp8 |-> fp8,
    fp4 |-> IF key \in DOMAIN Fp4Rate THEN Fp4Rate[key] ELSE 0,
    link |-> peer \div 2, node |-> node, network |-> 25000 ]

DatacenterGpus ==
  { GpuCard("A100", "nv", 80000, 2039000, 312000, 312000, 600000, 8),
    GpuCard("A100_40", "nv", 40000, 1555000, 312000, 312000, 64000, 8),
    GpuCard("A10", "nv", 24000, 600000, 125000, 125000, 64000, 8),
    GpuCard("H100", "nv", 80000, 3350000, 989000, 1979000, 900000, 8),
    GpuCard("H200", "nv", 141000, 4800000, 989000, 1979000, 900000, 8),
    GpuCard("L40S", "nv", 48000, 864000, 362050, 733000, 64000, 8),
    GpuCard("L4", "nv", 24000, 300000, 121000, 242500, 64000, 8) }

WorkstationGpus ==
  { GpuCard("RTXPRO6000_BSE", "nv", 96000, 1597000, 500000, 1000000, 128000, 8),
    GpuCard("RTXPRO6000_BW_WS", "nv", 96000, 1792000, 503800, 1007600, 128000, 4),
    GpuCard("RTXPRO5000_BW_72", "nv", 72000, 1344000, 267750, 535500, 128000, 4),
    GpuCard("RTX6000_ADA", "nv", 48000, 960000, 364250, 728500, 64000, 4),
    GpuCard("RTX5090", "nv", 32000, 1792000, 209500, 419000, 128000, 1),
    GpuCard("RTX4090", "nv", 24000, 1008000, 165150, 330300, 64000, 1),
    GpuCard("RTX3090", "nv", 24000, 936000, 71150, 71150, 64000, 1),
    GpuCard("DGX_SPARK", "nv", 128000, 273000, 125000, 250000, 25000, 1) }

BlackwellGpus ==
  { GpuCard("GB200", "nv", 186000, 8000000, 2500000, 5000000, 3600000, 72),
    GpuCard("B200", "nv", 180000, 8000000, 2250000, 4500000, 1800000, 8),
    GpuCard("B300", "nv", 288000, 8000000, 2500000, 5000000, 1800000, 8),
    GpuCard("GB300", "nv", 288000, 8000000, 2500000, 5000000, 3600000, 72),
    GpuCard("DGX_STATION_GB300", "nv", 252000, 7100000, 2500000, 5000000, 100000, 2),
    GpuCard("RUBIN_NVL72", "nv", 288000, 19200000, 4000000, 17500000, 3000000, 72) }

OlderNvidiaGpus ==
  { GpuCard("A40", "nv", 48000, 696000, 149700, 149700, 112500, 2),
    GpuCard("A30", "nv", 24000, 933000, 165000, 165000, 200000, 2),
    GpuCard("A6000", "nv", 48000, 768000, 154850, 154850, 112500, 2),
    GpuCard("A4000", "nv", 16000, 448000, 76700, 76700, 64000, 1),
    GpuCard("A2000_MOBILE", "nv", 8000, 192000, 37500, 37500, 64000, 1),
    GpuCard("T4", "nv", 16000, 320000, 65000, 65000, 32000, 8),
    GpuCard("V100", "nv", 32000, 900000, 125000, 125000, 300000, 8),
    GpuCard("JETSON_AGX_THOR", "nv", 128000, 273000, 258750, 517500, 25000, 1) }

AmdGpus ==
  { GpuCard("MI250X", "amd", 128000, 3200000, 383000, 383000, 800000, 8),
    GpuCard("MI300X", "amd", 192000, 5300000, 1307000, 2615000, 896000, 8),
    GpuCard("MI325X", "amd", 256000, 6000000, 1307000, 2615000, 896000, 8),
    GpuCard("MI350X", "amd", 288000, 8000000, 2010000, 4020000, 1075200, 8),
    GpuCard("MI355X", "amd", 288000, 8000000, 2512000, 5037000, 1075200, 8),
    GpuCard("MI455X", "amd", 432000, 23300000, 5000000, 20100000, 3600000, 72),
    GpuCard("HELIOS_MI455X", "amd", 432000, 23300000, 5000000, 20100000, 3600000, 72),
    GpuCard("MI400", "amd", 432000, 23300000, 5000000, 20100000, 3600000, 72),
    GpuCard("RadeonProW7900", "amd", 48000, 864000, 123000, 123000, 64000, 1),
    GpuCard("RadeonRX9070XT", "amd", 16000, 640000, 195000, 389000, 128000, 1),
    GpuCard("RadeonRX7900XT", "amd", 20000, 800000, 103000, 103000, 64000, 1),
    GpuCard("RadeonRX7900XTX", "amd", 24000, 960000, 123000, 123000, 64000, 1),
    GpuCard("RadeonAIProR9700", "amd", 32000, 640000, 191000, 383000, 128000, 1) }

SpecialistGpus ==
  { GpuCard("TT_BLACKHOLE_P100A", "tenstorrent", 28000, 448000, 332000, 664000, 64000, 1),
    GpuCard("TT_BLACKHOLE_P150", "tenstorrent", 32000, 512000, 332000, 664000, 800000, 8),
    GpuCard("TT_GALAXY_BLACKHOLE", "tenstorrent", 32000, 512000, 359375, 718750, 1000000, 32),
    GpuCard("FURIOSA_RNGD", "furiosa", 48000, 1500000, 256000, 512000, 64000, 1) }

IntelGpus ==
  { GpuCard("Gaudi2", "intel", 96000, 2450000, 432000, 865000, 300000, 8),
    GpuCard("Gaudi3", "intel", 128000, 3700000, 1300000, 2600000, 900000, 4),
    GpuCard("CrescentIsland", "intel", 480000, 1000000, 183500, 367000, 128000, 8),
    GpuCard("ArcProB70", "intel", 32000, 608000, 183500, 367000, 128000, 8),
    GpuCard("ArcProB60", "intel", 24000, 456000, 98500, 197000, 64000, 8),
    GpuCard("ArcProB50", "intel", 16000, 224000, 85000, 170000, 64000, 8) }

AppleGpus ==
  { GpuCard("MAC_MINI_M4_PRO", "apple", 64000, 273000, 16000, 16000, 50000, 1),
    GpuCard("MAC_STUDIO_M4_MAX", "apple", 128000, 410000, 26000, 26000, 50000, 1),
    GpuCard("MAC_STUDIO_M3_ULTRA", "apple", 512000, 560000, 48000, 48000, 50000, 1),
    GpuCard("MAC_STUDIO_M5_MAX", "apple", 128000, 461000, 30000, 30000, 50000, 1),
    GpuCard("MAC_STUDIO_M5_ULTRA", "apple", 512000, 900000, 60000, 60000, 50000, 1) }

CardVariants ==
  { GpuCard("A100_80_PCIE", "nv", 80000, 1935000, 312000, 312000, 64000, 1),
    GpuCard("A100_40_SXM", "nv", 40000, 1555000, 312000, 312000, 600000, 8),
    GpuCard("H100_PCIE", "nv", 80000, 2000000, 756000, 1513000, 128000, 1),
    GpuCard("H100_NVL", "nv", 94000, 3900000, 835500, 1670500, 600000, 2),
    GpuCard("H200_NVL", "nv", 141000, 4800000, 835500, 1670500, 900000, 4),
    GpuCard("RTX3060_12", "nv", 12000, 360000, 25500, 25500, 32000, 1),
    GpuCard("RTX4060TI_16", "nv", 16000, 288000, 44125, 88250, 32000, 1),
    GpuCard("RTX5060TI_16", "nv", 16000, 448000, 47438, 94875, 64000, 1),
    GpuCard("RYZEN_AI_MAX_395_128", "amd", 96000, 200000, 29700, 29700, 10000, 1) }

(* Tiers of more or less memory of the same machine. *)
MemoryTiers ==
  LET tier(key, parent, mem) ==
        [CHOOSE g \in AppleGpus : g.key = parent EXCEPT !.key = key, !.mem = mem]
  IN  { tier("MAC_STUDIO_M5_MAX_64", "MAC_STUDIO_M5_MAX", 64000),
        tier("MAC_STUDIO_M5_ULTRA_256", "MAC_STUDIO_M5_ULTRA", 256000),
        tier("MAC_STUDIO_M4_MAX_64", "MAC_STUDIO_M4_MAX", 64000),
        tier("MAC_STUDIO_M3_ULTRA_256", "MAC_STUDIO_M3_ULTRA", 256000),
        tier("MAC_MINI_M4_PRO_48", "MAC_MINI_M4_PRO", 48000) }

GpuTypes == UNION { DatacenterGpus, WorkstationGpus, BlackwellGpus, OlderNvidiaGpus, AmdGpus,
                    SpecialistGpus, IntelGpus, AppleGpus, CardVariants, MemoryTiers }
=============================================================================
